---- MODULE Spec2Model ----
(***************************************************************************)
(* A model of the allma backend: its conversation state,                   *)
(*   - ConversationService (orchestration/services/conversation_service.py)*)
(*     the LRU cache of conversations, its per-conversation turn cap, its  *)
(*     TTL cleanup and its token-budgeted export;                          *)
(*   - Orchestrator.chat (orchestration/orchestrator.py), the coroutine    *)
(*     that appends the user turn, suspends on retrieval and generation    *)
(*     and appends the assistant turn;                                     *)
(* its text splitter,                                                      *)
(*   - TextSplitter and DocumentService.chunk_text                         *)
(*     (orchestration/services/document_service.py);                       *)
(* and its retrieval pipeline,                                             *)
(*   - RAGService (orchestration/services/rag_service.py): the embedding   *)
(*     cache, the batched embedding calls, ingest_chunks, retrieve_context *)
(*     and the reranking;                                                  *)
(*   - VectorStoreService and ChromaDBBackend                              *)
(*     (orchestration/services/vector_store_service.py), with a chromadb   *)
(*     collection or with the in-memory dicts of the fallback.             *)
(*                                                                         *)
(* Time is counted in hours.  Token estimates are kept in tenths of a      *)
(* token, so that words * 1.3 is the integer words * 13 (the sums of the   *)
(* model stay far below the ten words at which a float sum could round     *)
(* across an integer budget).  A text is a sequence of one-character       *)
(* strings.  A turn is its role and content: ChatMessage.timestamp and     *)
(* ChatMessage.metadata are written when a turn is made and read by no     *)
(* method but export_conversation.  Of Orchestrator.chat the path without  *)
(* streaming is modelled; the list built by _prepare_messages is local to  *)
(* a call and left out.                                                    *)
(*                                                                         *)
(* An embedding is a vector of two integers whose norm is an integer; a    *)
(* similarity, a distance and a score are counted in hundredths.  The      *)
(* embedding service, when it answers, answers a text with the same vector *)
(* at every call.  hash(text) takes HashSpace values, so that texts which  *)
(* collide are among the texts of the model.  chromadb is outside the      *)
(* repository: its add keeps the rows of stored ids or raises, its query   *)
(* returns the nearest rows that match the filter, rows at the same        *)
(* distance in any order, or raises.                                       *)
(***************************************************************************)
EXTENDS Integers, Sequences, FiniteSets, TLC

(***************************************************************************)
(* Bounds of the model.                                                    *)
(***************************************************************************)
MaxConversations == 2    \* max_conversations ranges over 1..MaxConversations; there is one id more
MaxMessages == 3         \* max_messages_per_conversation ranges over 1..MaxMessages
MaxAdds == 3             \* add_message calls counted per conversation, when the turns are studied
CacheAdds == 1           \* add_message calls counted per conversation, when the cache is studied
MaxWords == 1            \* words in the content of a turn
MaxTime == 2             \* hours the clock advances
MaxTtl == 1              \* conversation_ttl_hours ranges over 0..MaxTtl
MaxTokens == 3           \* max_tokens ranges over 0..MaxTokens
MaxImport == 2           \* turns in an imported snapshot
NumChats == 2            \* concurrent calls of Orchestrator.chat
NumChatIds == 2          \* conversation ids passed to Orchestrator.chat
MaxChunkSize == 3        \* TextSplitter.chunk_size ranges over 1..MaxChunkSize
MaxTextLen == 5          \* characters of a text given to split_text
BatchSize == 2           \* batch_size of _generate_embeddings_batch
CacheMaxSize == 3        \* RAGService._cache_max_size
HashSpace == 4           \* the values hash(text) takes
MaxNorm == 13           \* the norm of a vector
MaxSentences == 3        \* sentences of a text given to split_text, when sentences are split
MaxTopK == 2             \* top_k ranges over None and 1..MaxTopK

Ids == 1 .. (MaxConversations + 1)
Roles == {"system", "user", "assistant"}

\* The text of n words "w" separated by single spaces.
RECURSIVE Content(_)
Content(n) ==
    IF n = 0 THEN <<>>
    ELSE IF n = 1 THEN <<"w">>
    ELSE Content(n - 1) \o <<" ", "w">>

Contents == {Content(n) : n \in 1 .. MaxWords}
Messages == [role : Roles, content : Contents]
MetadataInputs == {"None", "{k: v}"}
\* the limit of get_messages: None, 0 or 1
Limits == {<<>>, <<0>>, <<1>>}

NoMsg == [role |-> "none", content |-> <<>>]
NoData == [id |-> 0, messages |-> <<>>, metadata |-> "None"]

(***************************************************************************)
(* State.                                                                  *)
(***************************************************************************)
VARIABLES
    max_conversations,  \* ConversationService.max_conversations
    max_messages,       \* ConversationService.max_messages
    ttl_hours,          \* ConversationService.ttl_hours
    _conversations,     \* OrderedDict id -> ConversationContext, as the sequence of its values in key order
    _stats,             \* dict id -> ConversationStats
    now,                \* datetime.utcnow(), in hours
    lastOp,             \* the last call: its name, arguments and return value
    scn                 \* the ids created so far, while the run is only creations and accesses of other ids

VARIABLES
    _active_conversations,  \* Orchestrator._active_conversations: conversation id -> reference of its ConversationContext
    contexts,               \* the ConversationContext objects made by chat: reference -> messages
    pc,                     \* per chat call: where the coroutine stands
    conversation_id,        \* per chat call: the argument conversation_id
    context,                \* per chat call: the local variable context, a reference
    error                   \* per chat call: whether the returned ChatResponse carries an error

chatVars == <<_active_conversations, contexts, pc, conversation_id, context, error>>

VARIABLES
    chunk_size,         \* TextSplitter.chunk_size
    chunk_overlap,      \* TextSplitter.chunk_overlap
    separators,         \* TextSplitter.separators
    text,               \* the argument of the last call of split_text
    text_chunks,        \* the list that call returned
    pieces,             \* the argument of the last call of _apply_overlap that was made on its own
    splitting           \* "idle" before the first call, then "returned", "hung" when the call never
                        \* returns, or "overlapped" when _apply_overlap was called on its own

splitVars == <<chunk_size, chunk_overlap, separators, text, text_chunks, pieces, splitting>>

VARIABLES
    top_k_results,          \* RAGConfig.top_k_results
    similarity_threshold,   \* RAGConfig.similarity_threshold, in hundredths
    rerank_enabled,         \* RAGConfig.rerank_enabled
    _embedding_cache,       \* RAGService._embedding_cache: hash -> vector
    _collection,            \* whether ChromaDBBackend._collection is a chromadb collection (else the fallback is in use)
    _documents,             \* ChromaDBBackend._documents: id -> content
    _embeddings,            \* ChromaDBBackend._embeddings, as the sequence of its items in key order
    _metadatas,             \* ChromaDBBackend._metadatas: id -> metadata
    ingest,                 \* the call of ingest_text in flight
    tasks,                  \* the _generate_embedding calls that its asyncio.gather awaits
    retrieve,               \* the call of retrieve_context in flight
    lastRag                 \* the last call of delete_by_source: its argument and return value

ragVars == <<top_k_results, similarity_threshold, rerank_enabled, _embedding_cache, _collection,
             _documents, _embeddings, _metadatas, ingest, tasks, retrieve, lastRag>>

vars == <<max_conversations, max_messages, ttl_hours, _conversations, _stats, now, lastOp, scn,
          _active_conversations, contexts, pc, conversation_id, context, error,
          chunk_size, chunk_overlap, separators, text, text_chunks, pieces, splitting,
          top_k_results, similarity_threshold, rerank_enabled, _embedding_cache, _collection,
          _documents, _embeddings, _metadatas, ingest, tasks, retrieve, lastRag>>

(***************************************************************************)
(* Python helpers.                                                         *)
(***************************************************************************)
Min(a, b) == IF a < b THEN a ELSE b
Max(a, b) == IF a > b THEN a ELSE b

\* xs[start:] of a Python list, start possibly negative
PySliceFrom(xs, start) ==
    LET from == IF start < 0 THEN Max(Len(xs) + start, 0) ELSE Min(start, Len(xs))
    IN  SubSeq(xs, from + 1, Len(xs))

\* xs.insert(index, x) of a Python list, index >= 0
PyInsert(xs, index, x) ==
    IF index >= Len(xs) THEN Append(xs, x)
    ELSE SubSeq(xs, 1, index) \o <<x>> \o SubSeq(xs, index + 1, Len(xs))

\* len(content.split()): the number of maximal runs of non-blank characters
WordCount(content) ==
    Cardinality({i \in 1 .. Len(content) :
                    content[i] # " " /\ (i = 1 \/ content[i - 1] = " ")})

\* len(content.split()) * 1.3, in tenths of a token
TokenEstimate(content) == WordCount(content) * 13

IsSystem(m) == m.role = "system"
NotSystem(m) == m.role # "system"

(***************************************************************************)
(* The OrderedDict _conversations.                                         *)
(***************************************************************************)
CachedIds(c) == {c[i].id : i \in 1 .. Len(c)}
Has(c, id) == id \in CachedIds(c)
IndexOf(c, id) == CHOOSE i \in 1 .. Len(c) : c[i].id = id
Ctx(c, id) == c[IndexOf(c, id)]
Without(c, id) == SelectSeq(c, LAMBDA e : e.id # id)

\* OrderedDict.move_to_end(key)
move_to_end(c, id) == Without(c, id) \o <<Ctx(c, id)>>

\* OrderedDict[key] = value: an existing key keeps its position
SetItem(c, ctx) ==
    IF Has(c, ctx.id) THEN [c EXCEPT ![IndexOf(c, ctx.id)] = ctx]
    ELSE Append(c, ctx)

\* dict.pop(key, None)
DictPop(d, id) == [k \in (DOMAIN d) \ {id} |-> d[k]]
\* dict[key] = value
DictSet(d, id, v) == [k \in (DOMAIN d) \cup {id} |-> IF k = id THEN v ELSE d[k]]

\* context.messages = msgs, on the context object of conversation id
SetMessages(c, id, msgs) == [c EXCEPT ![IndexOf(c, id)].messages = msgs]

\* A service state s is the pair [c |-> _conversations, st |-> _stats].

(***************************************************************************)
(* ConversationService._evict_conversation                                 *)
(***************************************************************************)
_evict_conversation_keeping_stats(s, id) ==
    [c |-> Without(s.c, id), st |-> s.st]
_evict_conversation(s, id) ==
    [c |-> Without(s.c, id), st |-> DictPop(s.st, id)]

\* next(iter(self._conversations))
oldest_id_newest(c) == c[Len(c)].id
oldest_id(c) == c[1].id

\* len(self._conversations) >= self.max_conversations
AtCapacity_off_by_one(c) == Len(c) > max_conversations
AtCapacity(c) == Len(c) >= max_conversations

\* while at capacity: evict the oldest
RECURSIVE EvictWhileFull(_)
EvictWhileFull(s) ==
    IF AtCapacity(s.c)
    THEN EvictWhileFull(_evict_conversation(s, oldest_id(s.c)))
    ELSE s

\* metadata or {}
OrEmpty(metadata) == IF metadata = "None" THEN "{}" ELSE metadata

(***************************************************************************)
(* ConversationService.create_conversation                                 *)
(***************************************************************************)
create_conversation(s, id, metadata, t) ==
    LET e == EvictWhileFull(s)
        new_context == [id |-> id, messages |-> <<>>,
                        metadata |-> OrEmpty(metadata), created_at |-> t]
        stats == [message_count |-> 0, user_messages |-> 0,
                  assistant_messages |-> 0, total_tokens_estimate |-> 0,
                  started_at |-> t, last_activity |-> t]
    IN  [c |-> SetItem(e.c, new_context), st |-> DictSet(e.st, id, stats)]

(***************************************************************************)
(* ConversationService.get_conversation: the state after the call; the     *)
(* call returns None exactly when the id is not cached.                    *)
(***************************************************************************)
Touch_no_move(c, id) == c
Touch(c, id) == move_to_end(c, id)

get_conversation(s, id, t) ==
    IF ~Has(s.c, id) THEN s
    ELSE [c |-> Touch(s.c, id),
          st |-> IF id \in DOMAIN s.st
                 THEN [s.st EXCEPT ![id].last_activity = t]
                 ELSE s.st]

(***************************************************************************)
(* ConversationService.get_or_create                                       *)
(***************************************************************************)
get_or_create(s, id, metadata, t) ==
    IF Has(s.c, id) THEN get_conversation(s, id, t)
    ELSE create_conversation(s, id, metadata, t)

(***************************************************************************)
(* ConversationService.add_message                                         *)
(***************************************************************************)
\* other_msgs[-keep_count:]
KeepLast_oldest(other_msgs, keep_count) == SubSeq(other_msgs, 1, Min(Max(keep_count, 0), Len(other_msgs)))
KeepLast(other_msgs, keep_count) == PySliceFrom(other_msgs, 0 - keep_count)

\* the trim of lines 161-168
Trim(messages) ==
    IF Len(messages) >= max_messages
    THEN LET system_msgs == SelectSeq(messages, IsSystem)
             other_msgs == SelectSeq(messages, NotSystem)
             keep_count == max_messages - Len(system_msgs) - 1
         IN  system_msgs \o KeepLast(other_msgs, keep_count)
    ELSE messages

add_message_or_create(s, id, message, t) ==
    LET g == IF Has(s.c, id) THEN get_conversation(s, id, t)
             ELSE [c |-> Append(s.c, [id |-> id, messages |-> <<>>,
                                      metadata |-> "{}", created_at |-> t]),
                   st |-> s.st]
    IN  [c |-> SetMessages(g.c, id, Append(Trim(Ctx(g.c, id).messages), message)),
         st |-> g.st]
add_message(s, id, message, t) ==
    IF ~Has(s.c, id) THEN s
    ELSE LET g == get_conversation(s, id, t)
             messages == Append(Trim(Ctx(g.c, id).messages), message)
             st == IF id \in DOMAIN g.st
                   THEN [g.st EXCEPT
                           ![id].message_count = @ + 1,
                           ![id].last_activity = t,
                           ![id].user_messages =
                               IF message.role = "user" THEN @ + 1 ELSE @,
                           ![id].assistant_messages =
                               IF message.role = "assistant" THEN @ + 1 ELSE @,
                           ![id].total_tokens_estimate =
                               @ + TokenEstimate(message.content)]
                   ELSE g.st
         IN  [c |-> SetMessages(g.c, id, messages), st |-> st]

(***************************************************************************)
(* ConversationService.get_messages: the returned list.  The call itself   *)
(* leaves the service in the state get_conversation leaves it in.  limit   *)
(* is <<>> for None and <<n>> for the number n.                            *)
(***************************************************************************)
get_messages(s, id, limit, include_system) ==
    IF ~Has(s.c, id) THEN <<>>
    ELSE LET all == Ctx(s.c, id).messages
             messages == IF include_system THEN all ELSE SelectSeq(all, NotSystem)
         IN  IF limit # <<>> /\ limit[1] # 0
             THEN PySliceFrom(messages, 0 - limit[1])
             ELSE messages

(***************************************************************************)
(* ConversationService.set_system_message                                  *)
(***************************************************************************)
set_system_message(s, id, content, t) ==
    IF ~Has(s.c, id) THEN s
    ELSE LET g == get_conversation(s, id, t)
             kept == SelectSeq(Ctx(g.c, id).messages, NotSystem)
             system_msg == [role |-> "system", content |-> content]
         IN  [c |-> SetMessages(g.c, id, PyInsert(kept, 0, system_msg)),
              st |-> g.st]

(***************************************************************************)
(* ConversationService.clear_history                                       *)
(***************************************************************************)
clear_history(s, id, keep_system, t) ==
    IF ~Has(s.c, id) THEN s
    ELSE LET g == get_conversation(s, id, t)
             kept == IF keep_system
                     THEN SelectSeq(Ctx(g.c, id).messages, IsSystem)
                     ELSE <<>>
         IN  [c |-> SetMessages(g.c, id, kept), st |-> g.st]

(***************************************************************************)
(* ConversationService.delete_conversation                                 *)
(***************************************************************************)
delete_conversation(s, id) ==
    IF Has(s.c, id)
    THEN [c |-> Without(s.c, id), st |-> DictPop(s.st, id)]
    ELSE s

(***************************************************************************)
(* ConversationService.cleanup_expired                                     *)
(***************************************************************************)
\* stats.last_activity and stats.last_activity < cutoff
IsExpired_inclusive(stats, cutoff) == stats.last_activity <= cutoff
IsExpired(stats, cutoff) == stats.last_activity < cutoff

\* the list expired of lines 330-335, as a set
Expired(s, t) ==
    LET cutoff == t - ttl_hours
    IN  {id \in DOMAIN s.st : IsExpired(s.st[id], cutoff)}

\* the state after the call; the call returns len(expired)
cleanup_expired(s, t) ==
    LET expired == Expired(s, t)
    IN  [c |-> SelectSeq(s.c, LAMBDA e : e.id \notin expired),
         st |-> [k \in (DOMAIN s.st) \ expired |-> s.st[k]]]

(***************************************************************************)
(* ConversationService.get_context_for_llm: the returned list.  The call   *)
(* itself leaves the service in the state get_conversation leaves it in.   *)
(***************************************************************************)
\* for msg in reversed(other_msgs): ... messages.insert(1, ...)
RECURSIVE WalkRecent(_, _, _, _, _)
WalkRecent(other_msgs, i, messages, token_count, max_tokens) ==
    IF i = 0 THEN messages
    ELSE LET msg_tokens == TokenEstimate(other_msgs[i].content)
         IN  IF token_count + msg_tokens > max_tokens * 10
             THEN messages
             ELSE WalkRecent(other_msgs, i - 1,
                             PyInsert(messages, 1, other_msgs[i]),
                             token_count + msg_tokens, max_tokens)

ContextForLLM(messages, max_tokens) ==
    LET system_msgs == SelectSeq(messages, IsSystem)
        first == IF system_msgs = <<>> THEN <<>> ELSE <<system_msgs[1]>>
        token_count == IF system_msgs = <<>> THEN 0
                       ELSE TokenEstimate(system_msgs[1].content)
        other_msgs == SelectSeq(messages, NotSystem)
    IN  WalkRecent(other_msgs, Len(other_msgs), first, token_count, max_tokens)

get_context_for_llm(s, id, max_tokens) ==
    IF ~Has(s.c, id) THEN <<>>
    ELSE ContextForLLM(Ctx(s.c, id).messages, max_tokens)

(***************************************************************************)
(* ConversationService.import_conversation, for a well-formed snapshot     *)
(* data = [id, messages, metadata]                                         *)
(***************************************************************************)
\* ChatMessage(role=msg_data["role"], content=msg_data["content"])
ChatMessage(msg_data) == [role |-> msg_data.role, content |-> msg_data.content]

RECURSIVE AddAll(_, _, _, _)
AddAll(s, id, msgs, t) ==
    IF msgs = <<>> THEN s
    ELSE AddAll(add_message(s, id, ChatMessage(Head(msgs)), t), id, Tail(msgs), t)

import_conversation(s, data, t) ==
    AddAll(create_conversation(s, data.id, data.metadata, t),
           data.id, data.messages, t)

(***************************************************************************)
(* ConversationService.export_conversation: the returned snapshot of a     *)
(* cached conversation.  The call itself leaves the service in the state   *)
(* get_conversation leaves it in, and returns None when the id is not      *)
(* cached.  The text of a timestamp is not modelled.                       *)
(***************************************************************************)
isoformat(timestamp) == "isoformat"

export_conversation(s, id) ==
    LET ctx == Ctx(s.c, id)
        stats == s.st[id]
    IN  [id |-> ctx.id,
         messages |-> [i \in 1 .. Len(ctx.messages) |->
                          [role |-> ctx.messages[i].role,
                           content |-> ctx.messages[i].content,
                           timestamp |-> isoformat(ctx.messages[i])]],
         metadata |-> ctx.metadata,
         created_at |-> ctx.created_at,
         stats |-> [message_count |-> stats.message_count,
                    user_messages |-> stats.user_messages,
                    assistant_messages |-> stats.assistant_messages]]

(***************************************************************************)
(* The calls of a run.  lastOp records the last call: name and id are the  *)
(* method and its conversation_id, msg the turn passed to add_message, ok  *)
(* the truth of the return value, out a returned list, n a returned count, *)
(* fresh whether the id was absent from the cache before the call, wasFull *)
(* whether the cache (for add_message: the conversation) was at capacity   *)
(* before the call, pos the highest position in the key order of a         *)
(* conversation that cleanup_expired removed (0 if none), prevAccess the   *)
(* id that the call just before this one fetched with get_conversation or  *)
(* get_or_create (0 if that call did not fetch a cached conversation), and *)
(* data the snapshot that export_conversation returned or that             *)
(* import_conversation was given.                                          *)
(***************************************************************************)
S == [c |-> _conversations, st |-> _stats]

Op(name, id) ==
    [name |-> name, id |-> id, msg |-> NoMsg, ok |-> FALSE, out |-> <<>>,
     n |-> 0, fresh |-> FALSE, wasFull |-> FALSE, pos |-> 0, prevAccess |-> 0,
     data |-> NoData]

Becomes(s2) == _conversations' = s2.c /\ _stats' = s2.st

ConfigUnchanged ==
    /\ UNCHANGED <<max_conversations, max_messages, ttl_hours,
                   _active_conversations, contexts, pc, conversation_id, context, error>>
    /\ UNCHANGED splitVars
    /\ UNCHANGED ragVars

JustAccessed ==
    IF lastOp.name \in {"get_conversation", "get_or_create"}
       /\ lastOp.ok /\ ~lastOp.fresh
    THEN lastOp.id ELSE 0

\* scn: log is the sequence of distinct ids created since the empty cache,
\* kept while every call so far was a creation of a new id or a call on
\* another id than the first created one.
Dirty == [log |-> <<>>, clean |-> FALSE]
Logged == {scn.log[i] : i \in 1 .. Len(scn.log)}

AfterCreation(id) ==
    IF scn.clean /\ id \notin Logged /\ Len(scn.log) <= max_conversations
    THEN [scn EXCEPT !.log = Append(@, id)]
    ELSE Dirty

AfterAccess(id) ==
    IF scn.clean /\ Has(_conversations, id) /\ scn.log # <<>> /\ id = scn.log[1]
    THEN Dirty
    ELSE scn

AfterRemoval(removed) == IF removed THEN Dirty ELSE scn

HighestPosition(c, ids) ==
    LET at == {i \in 1 .. Len(c) : c[i].id \in ids}
    IN  IF at = {} THEN 0 ELSE CHOOSE i \in at : \A j \in at : j <= i

CreateConversation(id, metadata) ==
    /\ Becomes(create_conversation(S, id, metadata, now))
    /\ lastOp' = [Op("create_conversation", id) EXCEPT
                    !.ok = TRUE,
                    !.fresh = ~Has(_conversations, id),
                    !.wasFull = Len(_conversations) >= max_conversations,
                    !.prevAccess = JustAccessed]
    /\ scn' = AfterCreation(id)
    /\ UNCHANGED now /\ ConfigUnchanged

GetConversation(id) ==
    /\ Becomes(get_conversation(S, id, now))
    /\ lastOp' = [Op("get_conversation", id) EXCEPT
                    !.ok = Has(_conversations, id)]
    /\ scn' = AfterAccess(id)
    /\ UNCHANGED now /\ ConfigUnchanged

GetOrCreate(id, metadata) ==
    /\ Becomes(get_or_create(S, id, metadata, now))
    /\ lastOp' = [Op("get_or_create", id) EXCEPT
                    !.ok = TRUE,
                    !.fresh = ~Has(_conversations, id),
                    !.wasFull = Len(_conversations) >= max_conversations,
                    !.prevAccess = IF Has(_conversations, id) THEN 0
                                   ELSE JustAccessed]
    /\ scn' = IF Has(_conversations, id) THEN AfterAccess(id)
              ELSE AfterCreation(id)
    /\ UNCHANGED now /\ ConfigUnchanged

AddMessage(id, message) ==
    /\ Becomes(add_message(S, id, message, now))
    /\ lastOp' = [Op("add_message", id) EXCEPT
                    !.msg = message,
                    !.ok = Has(_conversations, id),
                    !.wasFull = /\ Has(_conversations, id)
                                /\ Len(Ctx(_conversations, id).messages) >= max_messages]
    /\ scn' = AfterAccess(id)
    /\ UNCHANGED now /\ ConfigUnchanged

SetSystemMessage(id, content) ==
    /\ Becomes(set_system_message(S, id, content, now))
    /\ lastOp' = [Op("set_system_message", id) EXCEPT
                    !.msg = [role |-> "system", content |-> content],
                    !.ok = Has(_conversations, id)]
    /\ scn' = AfterAccess(id)
    /\ UNCHANGED now /\ ConfigUnchanged

ClearHistory(id, keep_system) ==
    /\ Becomes(clear_history(S, id, keep_system, now))
    /\ lastOp' = [Op("clear_history", id) EXCEPT
                    !.ok = Has(_conversations, id)]
    /\ scn' = AfterAccess(id)
    /\ UNCHANGED now /\ ConfigUnchanged

DeleteConversation(id) ==
    /\ Becomes(delete_conversation(S, id))
    /\ lastOp' = [Op("delete_conversation", id) EXCEPT
                    !.ok = Has(_conversations, id)]
    /\ scn' = AfterRemoval(Has(_conversations, id))
    /\ UNCHANGED now /\ ConfigUnchanged

CleanupExpired ==
    /\ Becomes(cleanup_expired(S, now))
    /\ lastOp' = [Op("cleanup_expired", 0) EXCEPT
                    !.n = Cardinality(Expired(S, now)),
                    !.ok = Expired(S, now) # {},
                    !.pos = HighestPosition(_conversations, Expired(S, now))]
    /\ scn' = AfterRemoval(Expired(S, now) # {})
    /\ UNCHANGED now /\ ConfigUnchanged

GetMessages(id, limit, include_system) ==
    /\ Becomes(get_conversation(S, id, now))
    /\ lastOp' = [Op("get_messages", id) EXCEPT
                    !.ok = Has(_conversations, id),
                    !.out = get_messages(S, id, limit, include_system)]
    /\ scn' = AfterAccess(id)
    /\ UNCHANGED now /\ ConfigUnchanged

GetContextForLLM(id, max_tokens) ==
    /\ Becomes(get_conversation(S, id, now))
    /\ lastOp' = [Op("get_context_for_llm", id) EXCEPT
                    !.ok = Has(_conversations, id),
                    !.n = max_tokens,
                    !.out = get_context_for_llm(S, id, max_tokens)]
    /\ scn' = AfterAccess(id)
    /\ UNCHANGED now /\ ConfigUnchanged

ExportConversation(id) ==
    /\ Becomes(get_conversation(S, id, now))
    /\ lastOp' = [Op("export_conversation", id) EXCEPT
                    !.ok = Has(_conversations, id),
                    !.data = IF Has(_conversations, id)
                             THEN export_conversation(S, id)
                             ELSE NoData]
    /\ scn' = AfterAccess(id)
    /\ UNCHANGED now /\ ConfigUnchanged

ImportConversation(data) ==
    /\ Becomes(import_conversation(S, data, now))
    /\ lastOp' = [Op("import_conversation", data.id) EXCEPT
                    !.ok = TRUE,
                    !.data = data,
                    !.fresh = ~Has(_conversations, data.id),
                    !.wasFull = Len(_conversations) >= max_conversations]
    /\ scn' = Dirty
    /\ UNCHANGED now /\ ConfigUnchanged

\* an hour passes
Tick ==
    /\ now < MaxTime
    /\ now' = now + 1
    /\ lastOp' = Op("tick", 0)
    /\ UNCHANGED <<_conversations, _stats, scn>> /\ ConfigUnchanged

Chats == 1 .. NumChats
ChatIds == 1 .. NumChatIds

\* Orchestrator.__init__, and no call of chat yet
NoChat ==
    /\ _active_conversations = <<>>
    /\ contexts = <<>>
    /\ pc = [t \in Chats |-> "idle"]
    /\ conversation_id = [t \in Chats |-> 0]
    /\ context = [t \in Chats |-> 0]
    /\ error = [t \in Chats |-> FALSE]

(***************************************************************************)
(* TextSplitter (orchestration/services/document_service.py).  A string is *)
(* the sequence of its characters, a separator too.                        *)
(***************************************************************************)
Chars == {"a", " ", "."}
Whitespace == {" ", "\n"}

\* TextSplitter.__init__: the default of separators
DefaultSeparators ==
    << <<"\n", "\n">>, <<"\n">>, <<".", " ">>, <<"!", " ">>, <<"?", " ">>,
       <<";", " ">>, <<",", " ">>, <<" ">>, <<>> >>

MinOf(set) == CHOOSE x \in set : \A y \in set : x <= y
MaxOf(set) == CHOOSE x \in set : \A y \in set : x >= y

\* s[start:end] of a Python string, 0 <= start
PySlice(s, start, end) == SubSeq(s, start + 1, Min(end, Len(s)))

\* s.strip()
RECURSIVE LStrip(_)
LStrip(s) == IF s # <<>> /\ Head(s) \in Whitespace THEN LStrip(Tail(s)) ELSE s

RECURSIVE RStrip(_)
RStrip(s) ==
    IF s # <<>> /\ s[Len(s)] \in Whitespace THEN RStrip(SubSeq(s, 1, Len(s) - 1)) ELSE s

Strip(s) == RStrip(LStrip(s))

\* the 0-based indexes at which sub occurs in s, sub not empty
Occurrences_of(sub, s) ==
    {i \in 0 .. (Len(s) - Len(sub)) : SubSeq(s, i + 1, i + Len(sub)) = sub}

\* sub in s
PyIn(sub, s) == Occurrences_of(sub, s) # {}

\* s.find(sub) and s.rfind(sub)
PyFind(s, sub) == IF PyIn(sub, s) THEN MinOf(Occurrences_of(sub, s)) ELSE 0 - 1
PyRFind(s, sub) == IF PyIn(sub, s) THEN MaxOf(Occurrences_of(sub, s)) ELSE 0 - 1

\* s.split(sep), sep not empty
RECURSIVE PySplit(_, _)
PySplit(s, sep) ==
    IF ~PyIn(sep, s) THEN <<s>>
    ELSE LET i == PyFind(s, sep)
         IN  <<SubSeq(s, 1, i)>> \o PySplit(SubSeq(s, i + Len(sep) + 1, Len(s)), sep)

\* The list that stands for a call that never returns: its one chunk is made
\* of a character no text holds, so that it is told apart in every list a
\* caller builds from it.
Diverged == <<"#">>
Diverges(chunks) == \E i \in 1 .. Len(chunks) : \E j \in 1 .. Len(chunks[i]) : chunks[i][j] = "#"

(***************************************************************************)
(* TextSplitter._apply_overlap                                             *)
(***************************************************************************)
_apply_overlap(chunks) ==
    IF chunks = <<>> \/ chunk_overlap = 0 THEN chunks
    ELSE [i \in 1 .. Len(chunks) |->
            IF i = 1 THEN chunks[1]
            ELSE LET prev_chunk == chunks[i - 1]
                     curr_chunk == chunks[i]
                     tail == IF Len(prev_chunk) > chunk_overlap
                             THEN PySliceFrom(prev_chunk, 0 - chunk_overlap)
                             ELSE prev_chunk
                     space_idx == PyFind(tail, <<" ">>)
                     overlap_text == IF space_idx > 0
                                     THEN PySliceFrom(tail, space_idx + 1)
                                     ELSE tail
                 IN  overlap_text \o <<" ">> \o curr_chunk]

(***************************************************************************)
(* TextSplitter._split_by_size: the while loop from start on.  A round     *)
(* that leaves start where it was repeats for ever; no round of a          *)
(* chunk_size below 5 moves start backwards.                               *)
(***************************************************************************)
RECURSIVE SplitFrom(_, _, _)
SplitFrom(s, start, chunks) ==
    IF start >= Len(s) THEN chunks
    ELSE LET window == PySlice(s, start, start + chunk_size)
             last_space == PyRFind(window, <<" ">>)
             at_word == start + chunk_size < Len(s) /\ last_space > chunk_size \div 2
             chunk == IF at_word THEN SubSeq(window, 1, last_space) ELSE window
             end == IF at_word THEN start + last_space ELSE start + chunk_size
         IN  IF end - chunk_overlap <= start THEN <<Diverged>>
             ELSE SplitFrom(s, end - chunk_overlap, Append(chunks, Strip(chunk)))

_split_by_size(s) == SplitFrom(s, 0, <<>>)

(***************************************************************************)
(* TextSplitter._recursive_split and _split_with_separator                 *)
(***************************************************************************)
RECURSIVE _recursive_split(_, _)
RECURSIVE ForSplits(_, _, _, _, _, _)
RECURSIVE ForSeparators(_, _, _)

\* the for loop of _split_with_separator from splits[i] on, and the lines after it
ForSplits(splits, i, chunks, current_chunk, separator, remaining_separators) ==
    IF i > Len(splits)
    THEN IF Strip(current_chunk) # <<>> THEN Append(chunks, Strip(current_chunk)) ELSE chunks
    ELSE LET split == splits[i]
             potential == IF current_chunk # <<>>
                          THEN current_chunk \o separator \o split
                          ELSE split
             saved == IF current_chunk # <<>>
                      THEN Append(chunks, Strip(current_chunk))
                      ELSE chunks
         IN  IF Strip(split) = <<>>
             THEN ForSplits(splits, i + 1, chunks, current_chunk, separator, remaining_separators)
             ELSE IF Len(potential) <= chunk_size
             THEN ForSplits(splits, i + 1, chunks, potential, separator, remaining_separators)
             ELSE IF Len(split) > chunk_size
             THEN ForSplits(splits, i + 1,
                            saved \o _recursive_split(split, remaining_separators),
                            <<>>, separator, remaining_separators)
             ELSE ForSplits(splits, i + 1, saved, split, separator, remaining_separators)

_split_with_separator(s, separator, remaining_separators) ==
    _apply_overlap(ForSplits(PySplit(s, separator), 1, <<>>, <<>>, separator, remaining_separators))

\* the for loop of _recursive_split from seps[j] on, and the fallback after it
ForSeparators(s, seps, j) ==
    IF j > Len(seps) THEN _split_by_size(s)
    ELSE IF seps[j] # <<>> /\ PyIn(seps[j], s)
    THEN LET chunks == _split_with_separator(s, seps[j], Tail(seps))
         IN  IF chunks # <<>> THEN chunks ELSE ForSeparators(s, seps, j + 1)
    ELSE ForSeparators(s, seps, j + 1)

_recursive_split(s, seps) ==
    IF s = <<>> THEN <<>>
    ELSE IF Len(s) <= chunk_size
    THEN IF Strip(s) # <<>> THEN <<Strip(s)>> ELSE <<>>
    ELSE ForSeparators(s, seps, 1)

\* TextSplitter.split_text
split_text(s) == _recursive_split(s, separators)

\* TextSplitter.__init__ with the defaults of RAGConfig, and no call yet
NoSplit ==
    /\ chunk_size = 1000
    /\ chunk_overlap = 200
    /\ separators = DefaultSeparators
    /\ text = <<>>
    /\ text_chunks = <<>>
    /\ pieces = <<>>
    /\ splitting = "idle"

OthersUnchanged ==
    /\ UNCHANGED <<max_conversations, max_messages, ttl_hours, _conversations,
                   _stats, now, lastOp, scn>>
    /\ UNCHANGED chatVars

\* a call of split_text that returns
SplitText(s) ==
    /\ splitting = "idle"
    /\ ~Diverges(split_text(s))
    /\ text' = s
    /\ text_chunks' = split_text(s)
    /\ splitting' = "returned"
    /\ UNCHANGED <<chunk_size, chunk_overlap, separators, pieces>>
    /\ UNCHANGED ragVars
    /\ OthersUnchanged

\* a call of split_text that loops in _split_by_size
SplitTextHangs(s) ==
    /\ splitting = "idle"
    /\ Diverges(split_text(s))
    /\ text' = s
    /\ text_chunks' = <<>>
    /\ splitting' = "hung"
    /\ UNCHANGED <<chunk_size, chunk_overlap, separators, pieces>>
    /\ UNCHANGED ragVars
    /\ OthersUnchanged

\* a call of _apply_overlap on the chunks that _split_with_separator has
\* collected
ApplyOverlap(chunks) ==
    /\ splitting = "idle"
    /\ pieces' = chunks
    /\ text_chunks' = _apply_overlap(chunks)
    /\ splitting' = "overlapped"
    /\ UNCHANGED <<chunk_size, chunk_overlap, separators, text>>
    /\ UNCHANGED ragVars
    /\ OthersUnchanged

(***************************************************************************)
(* DocumentService.chunk_text (orchestration/services/document_service.py) *)
(* A chunk id "source_index_digest" is the triple of its parts.            *)
(***************************************************************************)
Code(ch) ==
    CASE ch = "a" -> 1 [] ch = "b" -> 2 [] ch = "." -> 3
      [] ch = " " -> 7 [] OTHER -> 5

RECURSIVE CodeSum(_)
CodeSum(s) == IF s = <<>> THEN 0 ELSE Code(Head(s)) + CodeSum(Tail(s))

\* hashlib.sha256(content.encode()).hexdigest()[:8]: a digest of the
\* characters, equal for equal contents and for some unequal ones
Sha8(content) == CodeSum(content)

_generate_chunk_id_of_call(source, index, content) ==
    <<source, index, Sha8(content) + Len(_embeddings)>>
_generate_chunk_id(source, index, content) == <<source, index, Sha8(content)>>

\* re.sub(r'\s+', ' ', text): every run of whitespace becomes one space
RECURSIVE CollapseWhitespace(_)
CollapseWhitespace(s) ==
    IF s = <<>> THEN <<>>
    ELSE IF Head(s) \in Whitespace
    THEN <<" ">> \o CollapseWhitespace(LStrip(s))
    ELSE <<Head(s)>> \o CollapseWhitespace(Tail(s))

\* DocumentService._clean_text; after the first substitution no line break
\* is left for the later ones
_clean_text(s) == Strip(CollapseWhitespace(s))

\* the for loop of chunk_text from text_chunks[i] on; i counts from 1, the
\* chunk_index from 0
RECURSIVE ForChunks(_, _, _)
ForChunks(chunks, i, source) ==
    IF i > Len(chunks) THEN <<>>
    ELSE IF Strip(chunks[i]) = <<>> THEN ForChunks(chunks, i + 1, source)
    ELSE <<[id |-> _generate_chunk_id(source, i - 1, chunks[i]),
            content |-> chunks[i],
            source |-> source,
            chunk_index |-> i - 1]>> \o ForChunks(chunks, i + 1, source)

chunk_text(s, source) == ForChunks(split_text(_clean_text(s)), 1, source)

(***************************************************************************)
(* The embedding service and the vectors.  A vector has two integer        *)
(* coordinates and an integer norm; a similarity, a distance and a score   *)
(* are counted in hundredths.                                              *)
(***************************************************************************)
\* ollama_client.embeddings(model, prompt)['embedding'], when it answers:
\* one vector per text, the same at every call
Embedding(prompt) ==
    LET has_b == \E i \in 1 .. Len(prompt) : prompt[i] = "b"
    IN  IF prompt = <<>> THEN <<0, 0>>
        ELSE IF Head(prompt) = "a" THEN (IF has_b THEN <<4, 3>> ELSE <<1, 0>>)
        ELSE IF Head(prompt) = "b" THEN (IF Len(prompt) = 1 THEN <<0, 1>> ELSE <<5, 12>>)
        ELSE IF Head(prompt) = "A" THEN <<3, 4>>
        ELSE <<0, 0>>

\* hash(text): an integer of HashSpace values
PyHash(s) == CodeSum(s) % HashSpace

Dot(a, b) == a[1] * b[1] + a[2] * b[2]
Sqrt(n) == CHOOSE r \in 0 .. MaxNorm : r * r = n

\* cosine_similarity of _fallback_search
cosine_similarity(a, b) ==
    LET norm_a == Sqrt(Dot(a, a))
        norm_b == Sqrt(Dot(b, b))
    IN  IF norm_a # 0 /\ norm_b # 0 THEN (Dot(a, b) * 100) \div (norm_a * norm_b) ELSE 0

\* str.lower
Lower(s) == [i \in 1 .. Len(s) |-> IF s[i] = "A" THEN "a" ELSE s[i]]

\* set(s.split()): the maximal runs of characters that are not whitespace
Terms(s) ==
    {SubSeq(s, i, j) : <<i, j>> \in
        {p \in (1 .. Len(s)) \X (1 .. Len(s)) :
            /\ p[1] <= p[2]
            /\ \A n \in p[1] .. p[2] : s[n] \notin Whitespace
            /\ (p[1] = 1 \/ s[p[1] - 1] \in Whitespace)
            /\ (p[2] = Len(s) \/ s[p[2] + 1] \in Whitespace)}}

\* list.sort(key = score, reverse = True): stable, the elements of equal
\* score keep their order
RECURSIVE SortByScore(_)
InsertByScore(sorted, x) ==
    LET before == SelectSeq(sorted, LAMBDA y : y.score >= x.score)
        after == SelectSeq(sorted, LAMBDA y : y.score < x.score)
    IN  before \o <<x>> \o after
SortByScore(xs) ==
    IF xs = <<>> THEN <<>>
    ELSE InsertByScore(SortByScore(SubSeq(xs, 1, Len(xs) - 1)), xs[Len(xs)])

\* xs[:n] of a Python list, 0 <= n
PyTake(xs, n) == SubSeq(xs, 1, Min(n, Len(xs)))

(***************************************************************************)
(* ChromaDBBackend and VectorStoreService                                  *)
(* (orchestration/services/vector_store_service.py).  A backend state b    *)
(* is the record [d |-> _documents, e |-> _embeddings, m |-> _metadatas];  *)
(* _embeddings, the dict that _fallback_search walks, is the sequence of   *)
(* its items in key order.  With a chromadb collection the same three      *)
(* hold the rows of the collection.  An optional argument is the empty     *)
(* sequence (None) or the sequence of its one value; a metadata filter is  *)
(* {"source": value}.                                                      *)
(***************************************************************************)
Backend == [d |-> _documents, e |-> _embeddings, m |-> _metadatas]

StoredIds(b) == {b.e[i].id : i \in 1 .. Len(b.e)}

\* _embeddings[doc_id] = embedding: an existing key keeps its position
PutEmbedding(e, doc_id, embedding) ==
    IF \E i \in 1 .. Len(e) : e[i].id = doc_id
    THEN [i \in 1 .. Len(e) |->
            IF e[i].id = doc_id THEN [id |-> doc_id, embedding |-> embedding] ELSE e[i]]
    ELSE Append(e, [id |-> doc_id, embedding |-> embedding])

\* ChromaDBBackend.add without a collection: the for loop from ids[i] on
RECURSIVE FallbackAdd(_, _, _)
FallbackAdd(b, items, i) ==
    IF i > Len(items) THEN b
    ELSE FallbackAdd([d |-> DictSet(b.d, items[i].id, items[i].document),
                      e |-> PutEmbedding(b.e, items[i].id, items[i].embedding),
                      m |-> DictSet(b.m, items[i].id, items[i].metadata)],
                     items, i + 1)

\* collection.add of chromadb, when it does not raise: the rows of new ids
\* are added, a row whose id is stored stays as it is
NewItems(b, items) ==
    SelectSeq(items, LAMBDA it : it.id \notin StoredIds(b))
CollectionAdd(b, items) == FallbackAdd(b, NewItems(b, items), 1)

\* VectorStoreService.add_chunks: what it hands to the backend
HasEmbedding(chunk) == chunk.embedding # <<>>
ItemsOf(chunks) ==
    LET kept == SelectSeq(chunks, HasEmbedding)
    IN  [i \in 1 .. Len(kept) |->
            [id |-> kept[i].id,
             document |-> kept[i].content,
             embedding |-> kept[i].embedding,
             metadata |-> [source |-> kept[i].source, chunk_index |-> kept[i].chunk_index]]]

\* ChromaDBBackend._fallback_search
_fallback_search(b, query_embedding, top_k) ==
    LET scores == SortByScore([i \in 1 .. Len(b.e) |->
                      [id |-> b.e[i].id,
                       score |-> cosine_similarity(query_embedding, b.e[i].embedding)]])
        top == PyTake(scores, top_k)
    IN  [i \in 1 .. Len(top) |->
            [id |-> top[i].id,
             content |-> b.d[top[i].id],
             metadata |-> b.m[top[i].id],
             distance |-> 100 - top[i].score]]

\* collection.query of chromadb with where = filter_metadata, when it does
\* not raise, formatted by ChromaDBBackend.search: the n_results nearest
\* rows that match the filter, by ascending cosine distance; rows at the
\* same distance come in any order
Matching(b, where) ==
    {id \in StoredIds(b) : where = <<>> \/ b.m[id].source = where[1]}

Row(b, query_embedding, id) ==
    LET i == CHOOSE n \in 1 .. Len(b.e) : b.e[n].id = id
    IN  [id |-> id,
         content |-> b.d[id],
         metadata |-> b.m[id],
         distance |-> 100 - cosine_similarity(query_embedding, b.e[i].embedding)]

CollectionQuery(b, query_embedding, n_results, where) ==
    LET ids == Matching(b, where)
        count == Cardinality(ids)
        orders == {p \in [1 .. count -> ids] :
                      /\ \A i, j \in 1 .. count : i # j => p[i] # p[j]
                      /\ \A i \in 1 .. (count - 1) :
                            Row(b, query_embedding, p[i]).distance
                               <= Row(b, query_embedding, p[i + 1]).distance}
    IN  {PyTake([i \in 1 .. count |-> Row(b, query_embedding, p[i])], n_results) : p \in orders}

\* ChromaDBBackend.search without a collection: filter_metadata is not passed on
FallbackSearch(b, query_embedding, top_k, filter_metadata) ==
    _fallback_search(b, query_embedding, top_k)

\* VectorStoreService.search: the backend's results as DocumentChunks
AsChunks(results) ==
    [i \in 1 .. Len(results) |->
        [id |-> results[i].id,
         content |-> results[i].content,
         source |-> results[i].metadata.source,
         chunk_index |-> results[i].metadata.chunk_index,
         score |-> 100 - results[i].distance]]

\* VectorStoreService.delete_by_metadata: the backend afterwards, and the
\* number returned
delete_by_metadata(b, metadata) == [backend |-> b, deleted |-> 0]

(***************************************************************************)
(* RAGService (orchestration/services/rag_service.py)                      *)
(***************************************************************************)
\* k = top_k or self.config.top_k_results
K(top_k) == IF top_k = <<>> \/ top_k[1] = 0 THEN top_k_results ELSE top_k[1]

\* RAGService._rerank_results
keyword_bonus(query, content) ==
    Min(Cardinality(Terms(Lower(query)) \cap Terms(Lower(content))) * 5, 20)

NewScore(query, chunk) == Min(chunk.score + keyword_bonus(query, chunk.content), 100)

_rerank_results_unsorted(query, results) ==
    [i \in 1 .. Len(results) |-> [results[i] EXCEPT !.score = NewScore(query, results[i])]]
_rerank_results(query, results) ==
    SortByScore([i \in 1 .. Len(results) |->
                    [results[i] EXCEPT !.score = NewScore(query, results[i])]])

\* step 3 of retrieve_context
Reranked(query, results) ==
    IF rerank_enabled /\ results # <<>> THEN _rerank_results(query, results) ELSE results

\* step 4 of retrieve_context
AboveThreshold(r) == r.score >= similarity_threshold
Filtered_by_count(results, k) == PyTake(results, k)
Filtered(results, k) == PyTake(SelectSeq(results, AboveThreshold), k)

\* step 5 of retrieve_context: the sources of the RAGContext
SourcesOf(chunks) == {chunks[i].source : i \in 1 .. Len(chunks)}

\* RAGService._generate_embedding, lines 110-112: the cached vector, if any
CacheHit(s) == PyHash(s) \in DOMAIN _embedding_cache

\* lines 122-124: the cache after the service answered
Cached_after(cache, s) ==
    IF Cardinality(DOMAIN cache) < CacheMaxSize
    THEN DictSet(cache, PyHash(s), Embedding(s))
    ELSE cache

(***************************************************************************)
(* The coroutines of the RAG pipeline.  A coroutine runs from one await    *)
(* that suspends to the next in one step.  An await of the fallback        *)
(* backend does not suspend, an await of chromadb's executor does.         *)
(*                                                                         *)
(* ingest is the one call of Orchestrator.ingest_text in flight: where it  *)
(* stands (pc), its chunks, the index i of the batch being embedded, the   *)
(* embeddings gathered so far, the status it returned and, once it has     *)
(* stored its chunks, whether the index held a chunk of the same source,   *)
(* index and content for each of them (again).  tasks are the              *)
(* _generate_embedding calls of the batch that asyncio.gather awaits:      *)
(* the text, whether the call waits for the service, is done or has        *)
(* failed, and the vector it returned.                                     *)
(* retrieve is the one call of retrieve_context in flight: its arguments,  *)
(* k, the query embedding, the chunks after the search, after the          *)
(* reranking and after the filter, and the steps it has started.           *)
(***************************************************************************)
Test == <<"t", "e", "s", "t">>

\* RAGService.__init__ and RAGService.initialize, which embeds "test"
InitialCache == DictSet(<<>>, PyHash(Test), Embedding(Test))

NoIngest ==
    [pc |-> "idle", chunks |-> <<>>, i |-> 0, embeddings |-> <<>>, status |-> "none",
     again |-> FALSE]

NoRetrieve ==
    [pc |-> "idle", query |-> <<>>, top_k |-> <<>>, filter_metadata |-> <<>>, k |-> 0,
     query_embedding |-> <<>>, results |-> <<>>, reranked |-> <<>>, chunks |-> <<>>,
     steps |-> <<>>]

NoRagCall == [name |-> "__init__", source |-> "", n |-> 0]

\* the texts[i:i + batch_size] of _generate_embeddings_batch
BatchTexts(chunks, i) ==
    [n \in 1 .. (Min(i + BatchSize, Len(chunks)) - i) |-> chunks[i + n].content]

\* the tasks of one asyncio.gather, each run up to its await: a call whose
\* key is cached returns the cached vector at once
StartTasks(texts) ==
    [n \in 1 .. Len(texts) |->
        IF CacheHit(texts[n])
        THEN [text |-> texts[n], st |-> "done",
              value |-> _embedding_cache[PyHash(texts[n])]]
        ELSE [text |-> texts[n], st |-> "wait", value |-> <<>>]]

\* the result of await asyncio.gather(*tasks): the values in the order of
\* the awaitables
gather(ts) == [n \in 1 .. Len(ts) |-> ts[n].value]

\* asyncio.gather without return_exceptions raises when a task has raised
gather_swallows(ts) == FALSE
gather_raises(ts) == \E n \in 1 .. Len(ts) : ts[n].st = "failed"

\* lines 304-305 of ingest_chunks
Attach(chunks, embeddings) ==
    [n \in 1 .. Len(chunks) |->
        [id |-> chunks[n].id, content |-> chunks[n].content, source |-> chunks[n].source,
         chunk_index |-> chunks[n].chunk_index,
         embedding |-> IF n <= Len(embeddings) THEN embeddings[n] ELSE <<>>]]

\* each of the chunks is stored already: the backend b holds a row of its
\* source, chunk_index and content
Reingested(b, chunks) ==
    \A n \in 1 .. Len(chunks) :
        \E id \in StoredIds(b) :
            /\ b.m[id].source = chunks[n].source
            /\ b.m[id].chunk_index = chunks[n].chunk_index
            /\ b.d[id] = chunks[n].content

BackendBecomes(b) == _documents' = b.d /\ _embeddings' = b.e /\ _metadatas' = b.m

RagConfigUnchanged == UNCHANGED <<top_k_results, similarity_threshold, rerank_enabled, _collection>>
BackendUnchanged == UNCHANGED <<_documents, _embeddings, _metadatas>>

\* Orchestrator.ingest_text: chunk_text, then ingest_chunks up to the await
\* of the first asyncio.gather
IngestText(s, source) ==
    /\ ingest.pc \in {"idle", "done", "failed"}
    /\ \A n \in 1 .. Len(tasks) : tasks[n].st # "wait"
    /\ ~Diverges(split_text(_clean_text(s)))
    /\ LET chunks == chunk_text(s, source)
       IN  IF chunks = <<>>
           THEN /\ ingest' = [NoIngest EXCEPT !.pc = "done", !.status = "empty"]
                /\ tasks' = <<>>
           ELSE /\ ingest' = [NoIngest EXCEPT !.pc = "gather", !.chunks = chunks]
                /\ tasks' = StartTasks(BatchTexts(chunks, 0))
    /\ UNCHANGED <<_embedding_cache, retrieve, lastRag>>
    /\ BackendUnchanged /\ RagConfigUnchanged /\ UNCHANGED splitVars /\ OthersUnchanged

\* the embedding service answers a call of the batch; lines 120-126
EmbedReturns(n) ==
    /\ n \in 1 .. Len(tasks)
    /\ tasks[n].st = "wait"
    /\ tasks' = [tasks EXCEPT ![n] = [text |-> tasks[n].text, st |-> "done",
                                     value |-> Embedding(tasks[n].text)]]
    /\ _embedding_cache' = Cached_after(_embedding_cache, tasks[n].text)
    /\ UNCHANGED <<ingest, retrieve, lastRag>>
    /\ BackendUnchanged /\ RagConfigUnchanged /\ UNCHANGED splitVars /\ OthersUnchanged

\* the embedding service fails a call of the batch; line 115 raises
EmbedRaises(n) ==
    /\ n \in 1 .. Len(tasks)
    /\ tasks[n].st = "wait"
    /\ tasks' = [tasks EXCEPT ![n] = [text |-> tasks[n].text, st |-> "failed",
                                     value |-> <<>>]]
    /\ UNCHANGED <<_embedding_cache, ingest, retrieve, lastRag>>
    /\ BackendUnchanged /\ RagConfigUnchanged /\ UNCHANGED splitVars /\ OthersUnchanged

\* asyncio.gather returns; lines 151-155, the next round of the loop or
\* lines 303-308 of ingest_chunks, and with the fallback backend lines
\* 310-314 as well
Gathered ==
    /\ ingest.pc = "gather"
    /\ ~gather_raises(tasks)
    /\ \A n \in 1 .. Len(tasks) : tasks[n].st # "wait"
    /\ LET embeddings == ingest.embeddings \o gather(tasks)
           i == ingest.i + BatchSize
           last == i >= Len(ingest.chunks)
           chunks == Attach(ingest.chunks, embeddings)
       IN  /\ ingest' = [ingest EXCEPT
                            !.embeddings = embeddings,
                            !.i = i,
                            !.pc = IF ~last THEN "gather"
                                   ELSE IF _collection THEN "add" ELSE "done",
                            !.status = IF last /\ ~_collection THEN "success" ELSE @,
                            !.again = IF last /\ ~_collection
                                      THEN Reingested(Backend, chunks) ELSE @]
           /\ tasks' = IF last THEN <<>> ELSE StartTasks(BatchTexts(ingest.chunks, i))
           /\ IF last /\ ~_collection
              THEN BackendBecomes(FallbackAdd(Backend, ItemsOf(chunks), 1))
              ELSE BackendUnchanged
    /\ UNCHANGED <<_embedding_cache, retrieve, lastRag>>
    /\ RagConfigUnchanged /\ UNCHANGED splitVars /\ OthersUnchanged

\* asyncio.gather raises the exception of a call; ingest_chunks raises it
GatherRaises ==
    /\ ingest.pc = "gather"
    /\ gather_raises(tasks)
    /\ ingest' = [ingest EXCEPT !.pc = "failed"]
    /\ UNCHANGED <<_embedding_cache, tasks, retrieve, lastRag>>
    /\ BackendUnchanged /\ RagConfigUnchanged /\ UNCHANGED splitVars /\ OthersUnchanged

\* collection.add returns; lines 310-314 of ingest_chunks
AddReturns ==
    /\ ingest.pc = "add"
    /\ BackendBecomes(CollectionAdd(Backend, ItemsOf(Attach(ingest.chunks, ingest.embeddings))))
    /\ ingest' = [ingest EXCEPT !.pc = "done", !.status = "success",
                                !.again = Reingested(Backend, ingest.chunks)]
    /\ UNCHANGED <<_embedding_cache, tasks, retrieve, lastRag>>
    /\ RagConfigUnchanged /\ UNCHANGED splitVars /\ OthersUnchanged

\* collection.add raises
AddRaises ==
    /\ ingest.pc = "add"
    /\ ingest' = [ingest EXCEPT !.pc = "failed"]
    /\ UNCHANGED <<_embedding_cache, tasks, retrieve, lastRag>>
    /\ BackendUnchanged /\ RagConfigUnchanged /\ UNCHANGED splitVars /\ OthersUnchanged

\* RAGService.delete_by_source
DeleteBySource(source) ==
    /\ LET r == delete_by_metadata(Backend, <<source>>)
       IN  /\ BackendBecomes(r.backend)
           /\ lastRag' = [name |-> "delete_by_source", source |-> source, n |-> r.deleted]
    /\ UNCHANGED <<_embedding_cache, ingest, tasks, retrieve>>
    /\ RagConfigUnchanged /\ UNCHANGED splitVars /\ OthersUnchanged

\* RAGService.clear_cache
ClearCache ==
    /\ _embedding_cache' = <<>>
    /\ UNCHANGED <<ingest, tasks, retrieve, lastRag>>
    /\ BackendUnchanged /\ RagConfigUnchanged /\ UNCHANGED splitVars /\ OthersUnchanged

\* results = await self._rerank_results(query, results): step 4 reads the
\* name results, which step 3 has bound to the reranked list
results_before_rerank(results, reranked) == results
results_of_step_3(results, reranked) == reranked

\* steps 3 to 5 of retrieve_context, lines 200-235, on the chunks that
\* VectorStoreService.search returned
Finish(r, results) ==
    LET reranked == Reranked(r.query, results)
    IN  [r EXCEPT !.pc = "done",
                  !.results = results,
                  !.reranked = reranked,
                  !.chunks = Filtered(results_of_step_3(results, reranked), r.k),
                  !.steps = @ \o (IF rerank_enabled /\ results # <<>> THEN <<"rerank">> ELSE <<>>)
                              \o <<"filter", "assemble">>]

\* step 2 of retrieve_context, lines 189-197, once the query embedding is
\* there: the fallback backend answers at once, chromadb is awaited
Search(r, query_embedding) ==
    LET searching == [r EXCEPT !.query_embedding = query_embedding,
                               !.steps = Append(@, "search")]
    IN  IF _collection THEN [searching EXCEPT !.pc = "search"]
        ELSE Finish(searching,
                    AsChunks(FallbackSearch(Backend, query_embedding, r.k * 2, r.filter_metadata)))

\* an awaited call raises: retrieve_context has no handler, the exception
\* leaves it
Raise_empty(r) == Finish(r, <<>>)
Raise(r) == [r EXCEPT !.pc = "failed"]

\* RAGService.retrieve_context, lines 181-188, and further if the embedding
\* of the query is cached
RetrieveContext(query, top_k, filter_metadata) ==
    /\ retrieve.pc \in {"idle", "done", "failed"}
    /\ LET r == [NoRetrieve EXCEPT !.query = query, !.top_k = top_k,
                                   !.filter_metadata = filter_metadata,
                                   !.k = K(top_k), !.steps = <<"embed">>]
       IN  retrieve' = IF CacheHit(query)
                       THEN Search(r, _embedding_cache[PyHash(query)])
                       ELSE [r EXCEPT !.pc = "embed"]
    /\ UNCHANGED <<_embedding_cache, ingest, tasks, lastRag>>
    /\ BackendUnchanged /\ RagConfigUnchanged /\ UNCHANGED splitVars /\ OthersUnchanged

\* the embedding service answers the query; lines 120-126, then step 2
QueryEmbedded ==
    /\ retrieve.pc = "embed"
    /\ _embedding_cache' = Cached_after(_embedding_cache, retrieve.query)
    /\ retrieve' = Search(retrieve, Embedding(retrieve.query))
    /\ UNCHANGED <<ingest, tasks, lastRag>>
    /\ BackendUnchanged /\ RagConfigUnchanged /\ UNCHANGED splitVars /\ OthersUnchanged

\* the embedding service fails the query
QueryEmbeddingRaises ==
    /\ retrieve.pc = "embed"
    /\ retrieve' = Raise(retrieve)
    /\ UNCHANGED <<_embedding_cache, ingest, tasks, lastRag>>
    /\ BackendUnchanged /\ RagConfigUnchanged /\ UNCHANGED splitVars /\ OthersUnchanged

\* collection.query returns; lines 163-174 and 337-353, then steps 3 to 5
SearchReturns ==
    /\ retrieve.pc = "search"
    /\ \E results \in CollectionQuery(Backend, retrieve.query_embedding,
                                      retrieve.k * 2, retrieve.filter_metadata) :
          retrieve' = Finish(retrieve, AsChunks(results))
    /\ UNCHANGED <<_embedding_cache, ingest, tasks, lastRag>>
    /\ BackendUnchanged /\ RagConfigUnchanged /\ UNCHANGED splitVars /\ OthersUnchanged

\* collection.query raises
SearchRaises ==
    /\ retrieve.pc = "search"
    /\ retrieve' = Raise(retrieve)
    /\ UNCHANGED <<_embedding_cache, ingest, tasks, lastRag>>
    /\ BackendUnchanged /\ RagConfigUnchanged /\ UNCHANGED splitVars /\ OthersUnchanged

\* RAGConfig with its defaults, the services constructed and initialized,
\* and no call yet
NoRag ==
    /\ top_k_results = 5
    /\ similarity_threshold = 70
    /\ rerank_enabled = TRUE
    /\ _collection = TRUE
    /\ _embedding_cache = InitialCache
    /\ _documents = <<>>
    /\ _embeddings = <<>>
    /\ _metadatas = <<>>
    /\ ingest = NoIngest
    /\ tasks = <<>>
    /\ retrieve = NoRetrieve
    /\ lastRag = NoRagCall

SeqsUpTo(X, n) == UNION {[1 .. k -> X] : k \in 0 .. n}

\* add_message is called while the conversation has counted fewer than limit calls
AddsBelow(id, limit) ==
    Has(_conversations, id) => _stats[id].message_count < limit

(***************************************************************************)
(* Spec: the cache within one hour.  Every method is called on every id,   *)
(* with the turns drawn from CacheMessages; the clock stands still, so     *)
(* that no conversation expires.                                           *)
(***************************************************************************)
CacheMessages == {[role |-> "user", content |-> Content(1)]}
CacheContents == {Content(1)}
CacheSnapshots ==
    [id : Ids, messages : SeqsUpTo(CacheMessages, CacheAdds), metadata : MetadataInputs]

Init ==
    /\ max_conversations \in 1 .. MaxConversations
    /\ max_messages = MaxMessages
    /\ ttl_hours = MaxTtl
    /\ _conversations = <<>>
    /\ _stats = <<>>
    /\ now = 0
    /\ lastOp = Op("__init__", 0)
    /\ scn = [log |-> <<>>, clean |-> TRUE]
    /\ NoChat
    /\ NoSplit
    /\ NoRag

Next ==
    \/ \E id \in Ids, metadata \in MetadataInputs : CreateConversation(id, metadata)
    \/ \E id \in Ids : GetConversation(id)
    \/ \E id \in Ids, metadata \in MetadataInputs : GetOrCreate(id, metadata)
    \/ \E id \in Ids, message \in CacheMessages :
          AddsBelow(id, CacheAdds) /\ AddMessage(id, message)
    \/ \E id \in Ids, content \in CacheContents : SetSystemMessage(id, content)
    \/ \E id \in Ids, keep_system \in BOOLEAN : ClearHistory(id, keep_system)
    \/ \E id \in Ids : DeleteConversation(id)
    \/ \E id \in Ids, max_tokens \in 0 .. MaxTokens : GetContextForLLM(id, max_tokens)
    \/ \E data \in CacheSnapshots : ImportConversation(data)
    \/ \E id \in Ids, limit \in Limits, include_system \in BOOLEAN :
          GetMessages(id, limit, include_system)
    \/ \E id \in Ids : ExportConversation(id)

Spec == Init /\ [][Next]_vars

(***************************************************************************)
(* SpecLifecycle: the life of a conversation over the hours.  The calls    *)
(* are those that admit, fetch, append to, delete and expire               *)
(* conversations; max_conversations also takes the value at which the      *)
(* cache holds every id.                                                   *)
(***************************************************************************)
LifecycleMetadata == {"None"}
LifecycleSnapshots ==
    [id : Ids, messages : SeqsUpTo(CacheMessages, CacheAdds), metadata : LifecycleMetadata]

InitLifecycle ==
    /\ max_conversations \in 1 .. (MaxConversations + 1)
    /\ max_messages = MaxMessages
    /\ ttl_hours \in 0 .. MaxTtl
    /\ _conversations = <<>>
    /\ _stats = <<>>
    /\ now = 0
    /\ lastOp = Op("__init__", 0)
    /\ scn = [log |-> <<>>, clean |-> TRUE]
    /\ NoChat
    /\ NoSplit
    /\ NoRag

NextLifecycle ==
    \/ \E id \in Ids, metadata \in LifecycleMetadata : CreateConversation(id, metadata)
    \/ \E id \in Ids : GetConversation(id)
    \/ \E id \in Ids, metadata \in LifecycleMetadata : GetOrCreate(id, metadata)
    \/ \E id \in Ids, message \in CacheMessages :
          AddsBelow(id, CacheAdds) /\ AddMessage(id, message)
    \/ \E id \in Ids : DeleteConversation(id)
    \/ CleanupExpired
    \/ \E data \in LifecycleSnapshots : ImportConversation(data)
    \/ Tick

SpecLifecycle == InitLifecycle /\ [][NextLifecycle]_vars

(***************************************************************************)
(* SpecTurns: the turns of one conversation.  Every method is called on    *)
(* the one id, with turns of every role and content.  A snapshot that      *)
(* export_conversation returned is imported by the next call: with         *)
(* max_conversations = 1 create_conversation empties the cache first, so   *)
(* the import is one into an empty cache with the same limits.             *)
(***************************************************************************)
TurnIds == {1}
TurnMetadata == {"None"}
TurnSnapshots ==
    [id : TurnIds, messages : SeqsUpTo(Messages, MaxImport), metadata : TurnMetadata]

InitTurns ==
    /\ max_conversations = 1
    /\ max_messages \in 1 .. MaxMessages
    /\ ttl_hours = MaxTtl
    /\ _conversations = <<>>
    /\ _stats = <<>>
    /\ now = 0
    /\ lastOp = Op("__init__", 0)
    /\ scn = [log |-> <<>>, clean |-> TRUE]
    /\ NoChat
    /\ NoSplit
    /\ NoRag

NextTurns ==
    \/ \E id \in TurnIds, metadata \in TurnMetadata : CreateConversation(id, metadata)
    \/ \E id \in TurnIds : GetConversation(id)
    \/ \E id \in TurnIds, metadata \in TurnMetadata : GetOrCreate(id, metadata)
    \/ \E id \in TurnIds, message \in Messages :
          AddsBelow(id, MaxAdds) /\ AddMessage(id, message)
    \/ \E id \in TurnIds, content \in Contents : SetSystemMessage(id, content)
    \/ \E id \in TurnIds, keep_system \in BOOLEAN : ClearHistory(id, keep_system)
    \/ \E id \in TurnIds : DeleteConversation(id)
    \/ \E id \in TurnIds, max_tokens \in 0 .. MaxTokens : GetContextForLLM(id, max_tokens)
    \/ \E data \in TurnSnapshots : ImportConversation(data)
    \/ \E id \in TurnIds, limit \in Limits, include_system \in BOOLEAN :
          GetMessages(id, limit, include_system)
    \/ \E id \in TurnIds : ExportConversation(id)
    \/ lastOp.name = "export_conversation" /\ lastOp.ok /\ ImportConversation(lastOp.data)

SpecTurns == InitTurns /\ [][NextTurns]_vars

(***************************************************************************)
(* Orchestrator.chat, without streaming.  A call runs from its start to    *)
(* its first await in one step, and from one await to the next in one      *)
(* step.  The turn of call t has content t: the user turn is the message   *)
(* of the call, the assistant turn the reply generated for it.             *)
(***************************************************************************)
UserTurn(t) == [role |-> "user", content |-> t]
AssistantTurn(t) == [role |-> "assistant", content |-> t]

ConversationServiceUnchanged ==
    UNCHANGED <<max_conversations, max_messages, ttl_hours, _conversations,
                _stats, now, lastOp, scn>>

ServiceUnchanged ==
    /\ ConversationServiceUnchanged
    /\ UNCHANGED splitVars
    /\ UNCHANGED ragVars

\* lines 180-198 (use_rag) or 180-228 (not use_rag): up to the first await
ChatStart(t, id, use_rag) ==
    /\ pc[t] = "idle"
    /\ LET known == id \in DOMAIN _active_conversations
           ref == IF known THEN _active_conversations[id]
                  ELSE Cardinality(DOMAIN contexts) + 1
           history == IF known THEN contexts[ref] ELSE <<>>
       IN  /\ _active_conversations' =
                 IF known THEN _active_conversations
                 ELSE DictSet(_active_conversations, id, ref)
           /\ contexts' = DictSet(contexts, ref, Append(history, UserTurn(t)))
           /\ context' = [context EXCEPT ![t] = ref]
    /\ conversation_id' = [conversation_id EXCEPT ![t] = id]
    /\ pc' = [pc EXCEPT ![t] = IF use_rag THEN "retrieve" ELSE "generate"]
    /\ UNCHANGED error
    /\ ServiceUnchanged

\* line 198 returns; lines 199-228: up to the await of the generation
ChatRetrieved(t) ==
    /\ pc[t] = "retrieve"
    /\ pc' = [pc EXCEPT ![t] = "generate"]
    /\ UNCHANGED <<_active_conversations, contexts, conversation_id, context, error>>
    /\ ServiceUnchanged

\* the awaited retrieval or generation raises; lines 212-219
ChatFailed(t) ==
    /\ pc[t] \in {"retrieve", "generate"}
    /\ pc' = [pc EXCEPT ![t] = "done"]
    /\ error' = [error EXCEPT ![t] = TRUE]
    /\ UNCHANGED <<_active_conversations, contexts, conversation_id, context>>
    /\ ServiceUnchanged

\* line 228 returns; lines 240-256
ChatGenerated(t) ==
    /\ pc[t] = "generate"
    /\ contexts' = [contexts EXCEPT ![context[t]] = Append(@, AssistantTurn(t))]
    /\ pc' = [pc EXCEPT ![t] = "done"]
    /\ UNCHANGED <<_active_conversations, conversation_id, context, error>>
    /\ ServiceUnchanged

\* Orchestrator.clear_conversation
ClearConversation(id) ==
    /\ _active_conversations' =
          IF id \in DOMAIN _active_conversations
          THEN DictPop(_active_conversations, id)
          ELSE _active_conversations
    /\ UNCHANGED <<contexts, pc, conversation_id, context, error>>
    /\ ServiceUnchanged

InitChat ==
    /\ max_conversations = MaxConversations
    /\ max_messages = MaxMessages
    /\ ttl_hours = MaxTtl
    /\ _conversations = <<>>
    /\ _stats = <<>>
    /\ now = 0
    /\ lastOp = Op("__init__", 0)
    /\ scn = [log |-> <<>>, clean |-> TRUE]
    /\ NoChat
    /\ NoSplit
    /\ NoRag

NextChat ==
    \/ \E t \in Chats, id \in ChatIds, use_rag \in BOOLEAN : ChatStart(t, id, use_rag)
    \/ \E t \in Chats : ChatRetrieved(t)
    \/ \E t \in Chats : ChatFailed(t)
    \/ \E t \in Chats : ChatGenerated(t)
    \/ \E id \in ChatIds : ClearConversation(id)

SpecChat == InitChat /\ [][NextChat]_vars

(***************************************************************************)
(* SpecSplit: one call of TextSplitter.split_text, on every text of up to  *)
(* MaxTextLen characters, for every chunk_size, every smaller              *)
(* chunk_overlap and each of the separator lists.                          *)
(***************************************************************************)
Texts == SeqsUpTo(Chars, MaxTextLen)
SeparatorLists == {DefaultSeparators, << <<".">>, <<" ">> >>, << <<".">> >>}

FreshConversationService ==
    /\ max_conversations = MaxConversations
    /\ max_messages = MaxMessages
    /\ ttl_hours = MaxTtl
    /\ _conversations = <<>>
    /\ _stats = <<>>
    /\ now = 0
    /\ lastOp = Op("__init__", 0)
    /\ scn = [log |-> <<>>, clean |-> TRUE]

InitSplit ==
    /\ FreshConversationService
    /\ NoChat
    /\ chunk_size \in 1 .. MaxChunkSize
    /\ chunk_overlap \in 0 .. (chunk_size - 1)
    /\ separators \in SeparatorLists
    /\ text = <<>>
    /\ text_chunks = <<>>
    /\ pieces = <<>>
    /\ splitting = "idle"
    /\ NoRag

\* the lists of two chunks that _split_with_separator collects from a text
\* of two splits: each stripped, not empty and of at most chunk_size
\* characters, and too long to make one chunk together
Pieces == {s \in SeqsUpTo(Chars, MaxChunkSize) : s # <<>> /\ Strip(s) = s}
PieceLists ==
    {chunks \in Pieces \X Pieces :
        /\ Len(chunks[1]) <= chunk_size
        /\ Len(chunks[2]) <= chunk_size
        /\ Len(chunks[1]) + 1 + Len(chunks[2]) > chunk_size}

NextSplit ==
    \/ \E s \in Texts : SplitText(s)
    \/ \E s \in Texts : SplitTextHangs(s)
    \/ \E chunks \in PieceLists : ApplyOverlap(chunks)

SpecSplit == InitSplit /\ [][NextSplit]_vars

(***************************************************************************)
(* SpecSentences: split_text on texts of sentences, with the one separator *)
(* ". ", a chunk_size of 4 and no overlap.                                 *)
(***************************************************************************)
Sentences ==
    {<<"A">>, <<"B">>, <<"C">>, <<"A", ".">>, <<"B", ".">>, <<"C", ".">>}

\* the sentences of a list with ". " between them
RECURSIVE Joined(_)
Joined(list) ==
    IF Len(list) = 1 THEN list[1]
    ELSE list[1] \o <<".", " ">> \o Joined(Tail(list))

SentenceTexts ==
    {Joined(list) : list \in UNION {[1 .. n -> Sentences] : n \in 1 .. MaxSentences}}

InitSentences ==
    /\ FreshConversationService
    /\ NoChat
    /\ chunk_size = 4
    /\ chunk_overlap = 0
    /\ separators = << <<".", " ">> >>
    /\ text = <<>>
    /\ text_chunks = <<>>
    /\ pieces = <<>>
    /\ splitting = "idle"
    /\ NoRag

NextSentences ==
    \/ \E s \in SentenceTexts : SplitText(s)

SpecSentences == InitSentences /\ [][NextSentences]_vars

(***************************************************************************)
(* SpecIngest: ingestion.  Texts of one or three words are ingested from   *)
(* one source, with a chunk_size that makes one chunk of a word and two    *)
(* batches of three chunks; every embedding call may fail, and the calls   *)
(* of a batch complete in every order.                                     *)
(***************************************************************************)
Sources == {"s1", "s2"}
DocTexts == {<<"A">>, <<"a", " ", " ", "b", " ", ".">>}
IngestChunkSizes == {1}
IngestSources == {"s1"}

InitRag(sizes, top_ks, thresholds, reranks) ==
    /\ FreshConversationService
    /\ NoChat
    /\ chunk_size \in sizes
    /\ chunk_overlap = 0
    /\ separators = DefaultSeparators
    /\ text = <<>>
    /\ text_chunks = <<>>
    /\ pieces = <<>>
    /\ splitting = "idle"
    /\ top_k_results \in top_ks
    /\ similarity_threshold \in thresholds
    /\ rerank_enabled \in reranks
    /\ _collection \in BOOLEAN
    /\ _embedding_cache = InitialCache
    /\ _documents = <<>>
    /\ _embeddings = <<>>
    /\ _metadatas = <<>>
    /\ ingest = NoIngest
    /\ tasks = <<>>
    /\ retrieve = NoRetrieve
    /\ lastRag = NoRagCall

InitIngest == InitRag(IngestChunkSizes, {1}, {70}, {TRUE})

Ingestion(texts, sources) ==
    \/ \E s \in texts, source \in sources : IngestText(s, source)
    \/ \E n \in 1 .. BatchSize : EmbedReturns(n)
    \/ Gathered
    \/ AddReturns

IngestionFails ==
    \/ \E n \in 1 .. BatchSize : EmbedRaises(n)
    \/ GatherRaises
    \/ AddRaises

NextIngest ==
    \/ Ingestion(DocTexts, IngestSources)
    \/ IngestionFails
    \/ \E source \in Sources : DeleteBySource(source)
    \/ ClearCache

SpecIngest == InitIngest /\ [][NextIngest]_vars

(***************************************************************************)
(* SpecRetrieve: retrieval from an index that ingestion fills from two     *)
(* sources while queries are answered; the embedding of a query and the    *)
(* search of the index may fail.                                           *)
(***************************************************************************)
Queries == {<<"A">>, <<"b", " ", "b">>}
TopKs == {<<>>} \cup {<<k>> : k \in 1 .. MaxTopK}
Filters == {<<>>} \cup {<<source>> : source \in Sources}
Thresholds == {0, 95}

RetrieveDocTexts == {<<"A", " ", " ", "b">>}

InitRetrieve == InitRag({1}, {1}, Thresholds, BOOLEAN)

NextRetrieve ==
    \/ Ingestion(RetrieveDocTexts, Sources)
    \/ \E query \in Queries, top_k \in TopKs, filter_metadata \in Filters :
          RetrieveContext(query, top_k, filter_metadata)
    \/ QueryEmbedded
    \/ QueryEmbeddingRaises
    \/ SearchReturns
    \/ SearchRaises

SpecRetrieve == InitRetrieve /\ [][NextRetrieve]_vars

(***************************************************************************)
(* Properties of the cache.                                                *)
(***************************************************************************)
Cached == CachedIds(_conversations)
MessagesOf(id) == Ctx(_conversations, id).messages

IsSuffix(a, b) ==
    Len(a) <= Len(b) /\ a = SubSeq(b, Len(b) - Len(a) + 1, Len(b))

\* a is b with some elements left out
RECURSIVE IsSubseq(_, _)
IsSubseq(a, b) ==
    IF a = <<>> THEN TRUE
    ELSE IF b = <<>> THEN FALSE
    ELSE IF Head(a) = Head(b) THEN IsSubseq(Tail(a), Tail(b))
    ELSE IsSubseq(a, Tail(b))

RECURSIVE TokenSum(_)
TokenSum(msgs) ==
    IF msgs = <<>> THEN 0
    ELSE TokenEstimate(Head(msgs).content) + TokenSum(Tail(msgs))

IsCreation(op) ==
    op.name \in {"create_conversation", "get_or_create"} /\ op.fresh

\* C1: with max_conversations = N, once N+1 conversations with distinct ids
\* have been created from the empty cache, with no call on the first one in
\* between, the first-created conversation is the one evicted and the other
\* N are cached.
C1_FirstCreatedEvicted ==
    (scn.clean /\ Len(scn.log) = max_conversations + 1) =>
        /\ scn.log[1] \notin Cached
        /\ Cached = {scn.log[i] : i \in 2 .. Len(scn.log)}
        /\ Len(_conversations) = max_conversations

C1_Witness ==
    /\ scn.clean
    /\ Len(scn.log) = max_conversations + 1
    /\ max_conversations >= 2
    /\ lastOp.name = "create_conversation"

\* C2, as claimed: for every max_conversations >= 1, the conversation fetched
\* with get_conversation or get_or_create right before a new conversation is
\* created is still cached after the creation.
C2_AccessProtects ==
    (IsCreation(lastOp) /\ lastOp.prevAccess # 0) =>
        lastOp.prevAccess \in Cached

\* C2, amended: the same for max_conversations >= 2.
C2_AccessProtectsFromTwo ==
    (IsCreation(lastOp) /\ lastOp.prevAccess # 0 /\ max_conversations >= 2) =>
        lastOp.prevAccess \in Cached

C2_Witness ==
    /\ IsCreation(lastOp)
    /\ lastOp.wasFull
    /\ lastOp.prevAccess # 0
    /\ max_conversations >= 2
    /\ lastOp.prevAccess \in Cached

C4_TurnCap ==
    \A i \in 1 .. Len(_conversations) :
        Len(_conversations[i].messages) <= max_messages

\* C5: add_message on a conversation that holds max_messages turns or more
\* keeps every system turn, stores the new turn last, and removes only the
\* oldest non-system turns.
C5_TrimKeepsSystemAndNew ==
    [][ (lastOp'.name = "add_message" /\ lastOp'.ok /\ lastOp'.wasFull) =>
          LET before == Ctx(_conversations, lastOp'.id).messages
              after == Ctx(_conversations', lastOp'.id).messages
              rest == SubSeq(after, 1, Len(after) - 1)
          IN  /\ after # <<>>
              /\ after[Len(after)] = lastOp'.msg
              /\ SelectSeq(rest, IsSystem) = SelectSeq(before, IsSystem)
              /\ IsSuffix(SelectSeq(rest, NotSystem), SelectSeq(before, NotSystem))
      ]_vars

C5_Witness ==
    /\ lastOp.name = "add_message"
    /\ lastOp.ok
    /\ lastOp.wasFull
    /\ lastOp.msg.role # "system"
    /\ max_messages >= 3
    /\ Len(MessagesOf(lastOp.id)) = max_messages
    /\ MessagesOf(lastOp.id)[1].role = "system"

\* C6: every conversation holds at most one turn with role system.
C6_OneSystemTurn ==
    \A i \in 1 .. Len(_conversations) :
        Len(SelectSeq(_conversations[i].messages, IsSystem)) <= 1

\* C7: get_context_for_llm returns the system turn, if there is one, first,
\* and the non-system turns it returns in the order in which they are stored.
C7_ContextChronological ==
    (lastOp.name = "get_context_for_llm" /\ lastOp.ok) =>
        LET stored == MessagesOf(lastOp.id)
            system_msgs == SelectSeq(stored, IsSystem)
        IN  /\ system_msgs # <<>> =>
                  (lastOp.out # <<>> /\ lastOp.out[1] = system_msgs[1])
            /\ \A i \in 2 .. Len(lastOp.out) : NotSystem(lastOp.out[i])
            /\ IsSubseq(SelectSeq(lastOp.out, NotSystem),
                        SelectSeq(stored, NotSystem))

\* C8: the estimated tokens of the turns get_context_for_llm returns, the
\* system turn included, sum to at most max_tokens.
C8_ContextWithinBudget ==
    (lastOp.name = "get_context_for_llm" /\ lastOp.ok) =>
        TokenSum(lastOp.out) <= lastOp.n * 10

\* C9: cleanup_expired removes exactly the conversations whose last_activity
\* is before now - ttl_hours, wherever they sit in the key order, keeps every
\* other conversation and its stats as they are, and returns the number removed.
C9_CleanupRemovesExpired ==
    [][ lastOp'.name = "cleanup_expired" =>
          LET old == {id \in Cached : _stats[id].last_activity < now - ttl_hours}
          IN  /\ _conversations' = SelectSeq(_conversations, LAMBDA e : e.id \notin old)
              /\ DOMAIN _stats' = Cached \ old
              /\ \A id \in Cached \ old : _stats'[id] = _stats[id]
              /\ lastOp'.n = Cardinality(old)
      ]_vars

\* a conversation was removed that sat behind one that was kept
C9_Witness ==
    /\ lastOp.name = "cleanup_expired"
    /\ lastOp.n >= 1
    /\ lastOp.pos > lastOp.n
    /\ _conversations # <<>>

(***************************************************************************)
(* Properties of Orchestrator.chat.                                        *)
(***************************************************************************)
Occurrences(h, turn) == Cardinality({i \in 1 .. Len(h) : h[i] = turn})
Position(h, turn) == CHOOSE i \in 1 .. Len(h) : h[i] = turn

\* C10: in the history stored for a conversation id, every call of chat that
\* has returned and that wrote to this history has its user turn exactly
\* once, and its assistant reply, if one was generated, exactly once and
\* directly after that user turn.
C10_TurnsPaired ==
    \A t \in Chats :
        (/\ pc[t] = "done"
         /\ conversation_id[t] \in DOMAIN _active_conversations
         /\ _active_conversations[conversation_id[t]] = context[t])
        => LET h == contexts[context[t]]
           IN  /\ Occurrences(h, UserTurn(t)) = 1
               /\ error[t] => Occurrences(h, AssistantTurn(t)) = 0
               /\ ~error[t] =>
                     /\ Occurrences(h, AssistantTurn(t)) = 1
                     /\ Position(h, AssistantTurn(t)) = Position(h, UserTurn(t)) + 1

(***************************************************************************)
(* Properties of the RAG pipeline                                          *)
(***************************************************************************)
\* the top_k that the caller of retrieve_context passed, or the configured
\* default when the caller passed none
PassedTopK == IF retrieve.top_k = <<>> THEN top_k_results ELSE retrieve.top_k[1]

BelowThreshold(chunks) ==
    {i \in 1 .. Len(chunks) : chunks[i].score < similarity_threshold}

PositionOf(chunks, id) == CHOOSE i \in 1 .. Len(chunks) : chunks[i].id = id

IdsOf(chunks) == [i \in 1 .. Len(chunks) |-> chunks[i].id]

\* C12: _rerank_results gives every chunk a score of at least its original
\* similarity score and returns the chunks sorted by the new score in
\* descending order, chunks of equal new score in the order in which the
\* search returned them.
C12_RerankRaisesAndSorts ==
    (retrieve.pc = "done" /\ rerank_enabled /\ retrieve.results # <<>>) =>
        LET results == retrieve.results
            reranked == retrieve.reranked
        IN  /\ Len(reranked) = Len(results)
            /\ \A i \in 1 .. Len(results) :
                   \E j \in 1 .. Len(reranked) :
                      /\ reranked[j].id = results[i].id
                      /\ reranked[j].content = results[i].content
                      /\ reranked[j].score >= results[i].score
            /\ \A i, j \in 1 .. Len(reranked) :
                   i < j =>
                      /\ reranked[i].score >= reranked[j].score
                      /\ reranked[i].score = reranked[j].score =>
                            PositionOf(results, reranked[i].id)
                               < PositionOf(results, reranked[j].id)

\* a reranking that raised a score, moved a chunk ahead of another and left
\* two chunks with the same new score
C12_Witness ==
    /\ retrieve.pc = "done"
    /\ rerank_enabled
    /\ IdsOf(retrieve.reranked) # IdsOf(retrieve.results)
    /\ \E i \in 1 .. Len(retrieve.results) :
          retrieve.reranked[PositionOf(retrieve.reranked, retrieve.results[i].id)].score
             > retrieve.results[i].score
    /\ \E i, j \in 1 .. Len(retrieve.reranked) :
          i < j /\ retrieve.reranked[i].score = retrieve.reranked[j].score

\* C13: _generate_embeddings_batch returns one vector per text in the order
\* of the texts, vector n being the embedding of text n, in whatever order
\* the calls of a batch complete: the vectors that ingest_chunks has
\* gathered are the embeddings of its first chunks, in order.
C13_BatchInInputOrder ==
    /\ Len(ingest.embeddings) <= Len(ingest.chunks)
    /\ \A n \in 1 .. Len(ingest.embeddings) :
          ingest.embeddings[n] = Embedding(ingest.chunks[n].content)

\* C14: the cache is keyed by the text: a call of _generate_embedding that
\* has returned has returned the vector of its own text, from the cache or
\* from the embedding service.
C14_CacheKeyedByText ==
    \A n \in 1 .. Len(tasks) :
        tasks[n].st = "done" => tasks[n].value = Embedding(tasks[n].text)

\* an embedding call of the batch that ingest_chunks awaits has failed
EmbeddingFailed ==
    ingest.pc = "gather" /\ \E n \in 1 .. Len(tasks) : tasks[n].st = "failed"

\* C15: ingestion does not commit partially: once an embedding call of an
\* ingest_chunks call has failed, no step adds to or changes the vector
\* index on behalf of that call, and the call does not return: it waits
\* for the batch or fails.
C15_NoPartialCommit ==
    [][EmbeddingFailed =>
          /\ _documents' = _documents
          /\ _embeddings' = _embeddings
          /\ _metadatas' = _metadatas
          /\ ingest'.pc \in {"gather", "failed"}
          /\ ingest'.status # "success"]_vars

\* an ingest_chunks call of two batches has failed in its second batch,
\* after the first batch was embedded, and none of its chunks is stored
C15_Witness ==
    /\ ingest.pc = "failed"
    /\ \E n \in 1 .. Len(tasks) : tasks[n].st = "failed"
    /\ ingest.embeddings # <<>>
    /\ \A n \in 1 .. Len(ingest.chunks) : ingest.chunks[n].id \notin StoredIds(Backend)

\* ingest_chunks stores its chunks in this step
Committing ==
    /\ ingest.pc \in {"gather", "add"}
    /\ ingest'.pc = "done"
    /\ ingest'.status = "success"

\* C16: ingestion is idempotent: when the chunks of a text of a source are
\* stored and the same text of the same source is chunked and ingested
\* again, the chunks have the ids they had, and the index holds the same
\* ids, the same number of rows and the same contents afterwards.
C16_IngestionIdempotent ==
    [][(Committing /\ Reingested(Backend, ingest.chunks)) =>
          /\ \A n \in 1 .. Len(ingest.chunks) : ingest.chunks[n].id \in StoredIds(Backend)
          /\ {_embeddings'[i].id : i \in 1 .. Len(_embeddings')} = StoredIds(Backend)
          /\ Len(_embeddings') = Len(_embeddings)
          /\ _documents' = _documents
          /\ _metadatas' = _metadatas]_vars

\* a document of three chunks has been ingested a second time, and the
\* index holds three rows
C16_Witness ==
    /\ ingest.pc = "done"
    /\ ingest.status = "success"
    /\ ingest.again
    /\ Len(ingest.chunks) = 3
    /\ Len(_embeddings) = 3

\* the ids of the chunks of a source that the backend b stores
IdsOfSource(b, source) == {id \in StoredIds(b) : b.m[id].source = source}

\* C17: delete_by_source(source) removes every stored chunk of the source
\* from the vector index and returns the number of chunks it removed.
C17_DeleteBySourceRemoves ==
    [][lastRag' # lastRag =>
          /\ lastRag'.name = "delete_by_source"
          /\ IdsOfSource([d |-> _documents', e |-> _embeddings', m |-> _metadatas'],
                         lastRag'.source) = {}
          /\ lastRag'.n = Cardinality(IdsOfSource(Backend, lastRag'.source))]_vars

\* C18: the search of the vector index returns at most top_k stored items
\* (retrieve_context asks for twice its k) by ascending distance, which is
\* descending score, and with a metadata filter only items whose metadata
\* match it, on the fallback backend as on chromadb.
C18_SearchBoundedOrderedFiltered ==
    retrieve.pc = "done" =>
        LET results == retrieve.results
        IN  /\ Len(results) <= retrieve.k * 2
            /\ \A i \in 1 .. Len(results) : results[i].id \in StoredIds(Backend)
            /\ \A i, j \in 1 .. Len(results) :
                   i < j => results[i].score >= results[j].score
            /\ retrieve.filter_metadata # <<>> =>
                   \A i \in 1 .. Len(results) :
                      results[i].source = retrieve.filter_metadata[1]

StepOrder == <<"embed", "search", "rerank", "filter", "assemble">>
StepRank(step) == CHOOSE n \in 1 .. Len(StepOrder) : StepOrder[n] = step
HasStep(step) == \E i \in 1 .. Len(retrieve.steps) : retrieve.steps[i] = step

\* C19: a retrieve_context call starts its steps in the order embed,
\* search, rerank, filter, assemble, a step only when the result of the
\* step before it is there (reranking is left out when it is disabled or
\* the search found nothing); when the embedding call or the search fails,
\* the call fails, no later step has run and no result, not even an empty
\* one, is returned.
C19_StepsInOrder ==
    LET steps == retrieve.steps
    IN  /\ retrieve.pc # "idle" => (steps # <<>> /\ steps[1] = "embed")
        /\ \A i \in 2 .. Len(steps) :
               \/ StepRank(steps[i]) = StepRank(steps[i - 1]) + 1
               \/ /\ steps[i - 1] = "search"
                  /\ steps[i] = "filter"
                  /\ (~rerank_enabled \/ retrieve.results = <<>>)
        /\ HasStep("search") => retrieve.query_embedding # <<>>
        /\ retrieve.pc = "embed" => steps = <<"embed">>
        /\ retrieve.pc = "search" => steps = <<"embed", "search">>
        /\ HasStep("filter") => retrieve.pc = "done"
        /\ retrieve.pc = "done" => steps[Len(steps)] = "assemble"
        /\ retrieve.pc = "failed" =>
               /\ steps \in {<<"embed">>, <<"embed", "search">>}
               /\ retrieve.results = <<>>
               /\ retrieve.reranked = <<>>
               /\ retrieve.chunks = <<>>

\* the search of an index that holds chunks has failed after the query
\* was embedded
C19_Witness ==
    /\ retrieve.pc = "failed"
    /\ retrieve.steps = <<"embed", "search">>
    /\ retrieve.query_embedding # <<>>
    /\ _embeddings # <<>>

(***************************************************************************)
(* Properties of TextSplitter.                                             *)
(***************************************************************************)
\* C20: no chunk that split_text returns is longer than chunk_size +
\* chunk_overlap + 1: a core of at most chunk_size characters behind an
\* overlap prefix of at most chunk_overlap characters and one joining space,
\* whatever the depth at which _recursive_split made the chunk.
C20_ChunkWithinSizePlusOverlap ==
    splitting = "returned" =>
        \A i \in 1 .. Len(text_chunks) :
            Len(text_chunks[i]) <= chunk_size + chunk_overlap + 1

\* the prefix that _apply_overlap has put before chunk i and the space it
\* adds
OverlapPrefix(i) ==
    SubSeq(text_chunks[i], 1, Len(text_chunks[i]) - Len(pieces[i]) - 1)

\* a suffix of length n of the chunk b starts at a word boundary: at the
\* start of b or after whitespace, and not with whitespace
WordAligned(n, b) ==
    n > 0 =>
        /\ b[Len(b) - n + 1] \notin Whitespace
        /\ (n = Len(b) \/ b[Len(b) - n] \in Whitespace)

\* C21: with an overlap above 0, the prefix that the splitter puts before
\* chunk i > 0 is a suffix of chunk i - 1 of at most chunk_overlap
\* characters that starts at a word boundary: not in the middle of a word
\* of chunk i - 1 and not with whitespace.
C21_OverlapWordAligned ==
    (splitting = "overlapped" /\ chunk_overlap > 0) =>
        \A i \in 2 .. Len(pieces) :
            /\ text_chunks[i] = OverlapPrefix(i) \o <<" ">> \o pieces[i]
            /\ IsSuffix(OverlapPrefix(i), pieces[i - 1])
            /\ Len(OverlapPrefix(i)) <= chunk_overlap
            /\ WordAligned(Len(OverlapPrefix(i)), pieces[i - 1])

\* C22: split_text returns no chunk for an empty or all-whitespace text,
\* and for every text no chunk that is empty or has leading or trailing
\* whitespace; chunk_text, which numbers the chunks of split_text, numbers
\* the chunks it stores without a gap.
C22_ChunksTrimmedNotEmpty ==
    splitting = "returned" =>
        /\ Strip(text) = <<>> => text_chunks = <<>>
        /\ \A i \in 1 .. Len(text_chunks) :
               text_chunks[i] # <<>> /\ Strip(text_chunks[i]) = text_chunks[i]
        /\ LET chunks == ForChunks(text_chunks, 1, "s1")
           IN  \A n \in 1 .. Len(chunks) : chunks[n].chunk_index = n - 1

\* C28: split_text terminates for every text when chunk_size >= 1 and
\* 0 <= chunk_overlap < chunk_size: no call loops in _split_by_size.
C28_SplitTerminates ==
    splitting # "hung"

\* C23: the text "A. B. C." split with chunk_size 4, no overlap and the
\* separator ". " gives the three chunks "A", "B", "C." in that order.
C23_ThreeSentences ==
    (splitting = "returned" /\ text = <<"A", ".", " ", "B", ".", " ", "C", ".">>) =>
        text_chunks = << <<"A">>, <<"B">>, <<"C", ".">> >>

\* C26: with reranking enabled, retrieve_context compares the similarity
\* threshold with the reranked score and not with the raw similarity: the
\* returned chunks stand in rerank order, and a chunk whose reranked score
\* reaches the threshold is returned, whatever its raw similarity was,
\* unless top_k chunks that precede it in rerank order are returned.
C26_ThresholdAfterRerank ==
    (retrieve.pc = "done" /\ rerank_enabled) =>
        LET reranked == retrieve.reranked
            returned == IdsOf(retrieve.chunks)
        IN  /\ IsSubseq(returned, IdsOf(reranked))
            /\ \A i \in 1 .. Len(reranked) :
                   reranked[i].score >= similarity_threshold =>
                      \/ \E j \in 1 .. Len(returned) : returned[j] = reranked[i].id
                      \/ /\ Len(returned) = PassedTopK
                         /\ \A j \in 1 .. Len(returned) :
                                PositionOf(reranked, returned[j]) < i

\* a chunk of raw similarity below the threshold is returned, ahead of the
\* rank that the search gave it, and a chunk that reaches the threshold is
\* cut off by top_k
C26_Witness ==
    /\ retrieve.pc = "done"
    /\ rerank_enabled
    /\ \E i \in 1 .. Len(retrieve.results), j \in 1 .. Len(retrieve.chunks) :
          /\ retrieve.results[i].score < similarity_threshold
          /\ retrieve.chunks[j].id = retrieve.results[i].id
          /\ j < i
    /\ \E i \in 1 .. Len(retrieve.reranked) :
          /\ retrieve.reranked[i].score >= similarity_threshold
          /\ \A j \in 1 .. Len(retrieve.chunks) :
                 retrieve.chunks[j].id # retrieve.reranked[i].id

(***************************************************************************)
(* Further properties of ConversationService.                              *)
(***************************************************************************)
Front(h) == SubSeq(h, 1, Len(h) - 1)

\* C24: the turns of a conversation are stored in the order in which they
\* were added and are never reordered: a call of add_message or
\* set_system_message on a cached conversation stores its new turn last,
\* after turns that were stored before the call in the order in which they
\* were stored before it, and clear_history leaves stored turns in the order
\* in which they were stored before it.
C24_InsertionOrderKept ==
    [][(/\ lastOp'.name \in {"add_message", "set_system_message", "clear_history"}
        /\ lastOp'.ok)
          => LET id == lastOp'.id
                 before == MessagesOf(id)
                 after == Ctx(_conversations', id).messages
             IN  IF lastOp'.name = "clear_history"
                 THEN IsSubseq(after, before)
                 ELSE /\ after # <<>>
                      /\ after[Len(after)] = lastOp'.msg
                      /\ IsSubseq(Front(after), before)]_vars

\* C25: export and import round trip: when the snapshot that
\* export_conversation returned for a cached conversation is given to
\* import_conversation on a cache with the same limits, the conversation
\* cached afterwards under the id of the snapshot has the same id, the same
\* metadata and the same sequence of (role, content) turns as the exported
\* one.
C25_ExportImportRoundTrip ==
    [][(/\ lastOp.name = "export_conversation"
        /\ lastOp.ok
        /\ lastOp'.name = "import_conversation"
        /\ lastOp'.data = lastOp.data)
          => /\ Has(_conversations', lastOp.id)
             /\ Ctx(_conversations', lastOp.id).metadata = Ctx(_conversations, lastOp.id).metadata
             /\ Ctx(_conversations', lastOp.id).messages = MessagesOf(lastOp.id)]_vars

\* the methods that look a conversation up and fail when it is not cached
Lookups ==
    {"add_message", "set_system_message", "clear_history", "delete_conversation",
     "get_messages", "get_context_for_llm", "export_conversation"}

\* C27: a call of add_message, set_system_message, clear_history,
\* delete_conversation, get_messages, get_context_for_llm or
\* export_conversation with a conversation id that is not cached fails
\* without side effects: it returns False, an empty list or None, and the
\* cached conversations, their order of recency and their stats are what
\* they were before the call, so that no conversation is created.
C27_UnknownIdNoSideEffect ==
    [][(lastOp'.name \in Lookups /\ lastOp'.id \notin Cached)
          => /\ ~lastOp'.ok
             /\ lastOp'.out = <<>>
             /\ lastOp'.data = NoData
             /\ _conversations' = _conversations
             /\ _stats' = _stats]_vars

\* add_message was called with an id that is not cached while two
\* conversations were cached, one of them with a turn
C27_Witness ==
    /\ lastOp.name = "add_message"
    /\ lastOp.id \notin Cached
    /\ ~lastOp.ok
    /\ Len(_conversations) >= 2
    /\ \E i \in 1 .. Len(_conversations) : _conversations[i].messages # <<>>

\* C29: in every reachable state of ConversationService the ids that have a
\* stats record are the ids of the cached conversations: creation, import,
\* deletion, eviction at capacity and the cleanup of expired conversations
\* add or remove a conversation and its stats together.
C29_StatsMatchCache == DOMAIN _stats = Cached

\* the cleanup has removed an expired conversation and its stats and left
\* another conversation with its stats
C29_Witness ==
    /\ lastOp.name = "cleanup_expired"
    /\ lastOp.n > 0
    /\ Cached # {}
    /\ DOMAIN _stats = Cached

\* C30: when create_conversation or import_conversation returns, the
\* conversation of its id is the most recently used entry of the cache,
\* whether or not the id was cached before the call: it stands last in the
\* order in which eviction at capacity removes conversations; and the call
\* has evicted another conversation only if the id was not cached and the
\* cache was full.
C30_CreatedIsMostRecent ==
    [][lastOp'.name \in {"create_conversation", "import_conversation"}
          => /\ _conversations' # <<>>
             /\ _conversations'[Len(_conversations')].id = lastOp'.id
             /\ (Cached \ (CachedIds(_conversations') \cup {lastOp'.id})) # {}
                   => (lastOp'.id \notin Cached
                       /\ Len(_conversations) >= max_conversations)]_vars
====
